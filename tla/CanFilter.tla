----------------------------- MODULE CanFilter -----------------------------
(***************************************************************************)
(* rc::CanFilter with its clocks (rc_protocol.cpp): the permission table,  *)
(* the notify interval the app asked for each entry, and when each entry   *)
(* was last used.  A filter is a record; the operators are the methods.    *)
(***************************************************************************)
EXTENDS Millis, Subscription

\* A limiter with the interval it enforces; an allow-all is such a pair too.
Entry(interval) == [interval |-> interval, limit |-> Unprimed]

\* Neither listed nor allowed: no entry.
NoEntry == [interval |-> -1, limit |-> Unprimed]

\* CanFilter::reset.
ResetFilter == [all |-> NoEntry, pids |-> [p \in Pid |-> NoEntry]]

InTable(f) == {p \in Pid : f.pids[p].interval >= 0}

\* CanFilter::isAllowed.
IsAllowed(f, p) == f.all.interval >= 0 \/ p \in InTable(f)

\* Faulty variant: an allowAll that keeps the table.
ApplyWriteKeepingTable(f, w) ==
  CASE w.cmd = "denyAll"  -> ResetFilter
    [] w.cmd = "allowAll" -> [f EXCEPT !.all = Entry(w.interval)]
    [] w.cmd = "allowOne" /\ w.pid \in InTable(f)
                          -> [f EXCEPT !.pids[w.pid].interval = w.interval]
    [] w.cmd = "allowOne" /\ w.pid \notin InTable(f) /\ Cardinality(InTable(f)) < MaxPids
                          -> [f EXCEPT !.pids[w.pid] = Entry(w.interval)]
    [] OTHER              -> f

\* CanFilter::handleWrite.  A second allowOne changes the entry's interval and
\* keeps the time of its last use.
ApplyWrite(f, w) ==
  CASE w.cmd = "denyAll"  -> ResetFilter
    [] w.cmd = "allowAll" -> [ResetFilter EXCEPT !.all = Entry(w.interval)]
    [] w.cmd = "allowOne" /\ w.pid \in InTable(f)
                          -> [f EXCEPT !.pids[w.pid].interval = w.interval]
    [] w.cmd = "allowOne" /\ w.pid \notin InTable(f) /\ Cardinality(InTable(f)) < MaxPids
                          -> [f EXCEPT !.pids[w.pid] = Entry(w.interval)]
    [] OTHER              -> f

\* The entry shouldNotify consults: the PID's own, else the shared one.
Governing(f, p) == IF p \in InTable(f) THEN f.pids[p] ELSE f.all

\* CanFilter::shouldNotify, the answer.
ShouldNotify(f, p, now) ==
  /\ IsAllowed(f, p)
  /\ MayAcquire(Governing(f, p).limit, Governing(f, p).interval, now)

\* CanFilter::shouldNotify, the filter after it answered yes.
Notified(f, p, now) ==
  IF p \in InTable(f) THEN [f EXCEPT !.pids[p].limit = Acquired(now)]
                      ELSE [f EXCEPT !.all.limit = Acquired(now)]

\* The permissions alone: the filter as Subscription sees it.
Grant(e) == IF e.interval >= 0 THEN 1 ELSE 0
Permissions(f) == [all |-> Grant(f.all), pids |-> [p \in Pid |-> Grant(f.pids[p])]]
=============================================================================
