---------------------------- MODULE Subscription ----------------------------
(***************************************************************************)
(* What rc::CanFilter grants, without its clocks: which packet IDs may be  *)
(* notified, and which connection's write granted each of them.  A grant   *)
(* is the number of that connection, 0 when there is none; the number is   *)
(* history, the code keeps the permission alone.                           *)
(***************************************************************************)
EXTENDS Naturals, FiniteSets

CONSTANTS Pid,         \* packet IDs the app may name
          MaxPids      \* kMaxAllowedPids

ASSUME MaxPidsAssumption == MaxPids \in Nat

\* A filter, for connections numbered in Conn.
Filters(Conn) == [all : Conn \cup {0}, pids : [Pid -> Conn \cup {0}]]

\* A write that reached handleWrite.  "malformed" is an unknown command or one
\* with too few bytes; only allowOne names a PID.
FilterWrites(Conn) == [cmd : {"denyAll", "allowAll", "malformed"}, from : Conn]
                      \cup [cmd : {"allowOne"}, pid : Pid, from : Conn]

\* CanFilter::reset, "deny all".
DenyAll == [all |-> 0, pids |-> [p \in Pid |-> 0]]

Listed(f) == {p \in Pid : f.pids[p] # 0}

\* CanFilter::isAllowed.
Allowed(f, p) == f.all # 0 \/ f.pids[p] # 0

\* The connections whose writes allow p now.
Grantors(f, p) == {f.all, f.pids[p]} \ {0}

\* CanFilter::handleWrite.  allowOne updates the entry of a listed PID, adds
\* an entry while there is room, and otherwise changes nothing; it does not
\* withdraw an earlier allowAll.
HandleWrite(f, w) ==
  CASE w.cmd = "denyAll"  -> DenyAll
    [] w.cmd = "allowAll" -> [DenyAll EXCEPT !.all = w.from]
    [] w.cmd = "allowOne" /\ (w.pid \in Listed(f) \/ Cardinality(Listed(f)) < MaxPids)
                          -> [f EXCEPT !.pids[w.pid] = w.from]
    [] OTHER              -> f
=============================================================================
