-------------------------- MODULE PublishingProofs --------------------------
(***************************************************************************)
(* Proofs about publishing on the CAN characteristic: types, and that the  *)
(* timed filter allows exactly what the app's writes permit, for every     *)
(* clock, every interval and every number of packet IDs.                   *)
(***************************************************************************)
EXTENDS Publishing, TLAPS

FilterSpace == [all : Entries, pids : [Pid -> Entries]]

-----------------------------------------------------------------------------
(* The clock and the limiters. *)

LEMMA AfterTyped ==
  ASSUME NEW t \in Instant, NEW d \in Nat
  PROVE  After(t, d) \in Instant
  BY ClockAssumption DEF After, Instant

LEMMA UnprimedTyped == Unprimed \in Limiters
  BY ClockAssumption DEF Unprimed, Limiters, Instant

LEMMA AcquiredTyped ==
  ASSUME NEW t \in Instant
  PROVE  Acquired(t) \in Limiters
  BY DEF Acquired, Limiters

LEMMA EntryTyped ==
  /\ NoEntry \in Entries
  /\ \A i \in Interval : Entry(i) \in Entries
  BY UnprimedTyped DEF NoEntry, Entry, Entries

LEMMA ResetTyped == ResetFilter \in FilterSpace
  BY EntryTyped DEF ResetFilter, FilterSpace

LEMMA EntryInterval ==
  ASSUME NEW e \in Entries
  PROVE  e.interval \in Nat \cup {-1} /\ e.limit \in Limiters
  BY PublishingAssumption DEF Entries

LEMMA OlderTyped ==
  ASSUME NEW a \in 0 .. MaxAge, NEW d \in Nat
  PROVE  Older(a, d) \in 0 .. MaxAge
  BY PublishingAssumption DEF Older

-----------------------------------------------------------------------------
(* Writes. *)

\* A filter's table is what its permissions list.
LEMMA ListedIsTable ==
  ASSUME NEW f \in FilterSpace
  PROVE  Listed(Permissions(f)) = InTable(f)
<1>1. \A p \in Pid : f.pids[p] \in Entries
  BY DEF FilterSpace
<1>2. \A p \in Pid : Grant(f.pids[p]) # 0 <=> f.pids[p].interval >= 0
  BY DEF Grant
<1> QED BY <1>2 DEF Listed, Permissions, InTable

LEMMA GrantOf ==
  /\ Grant(NoEntry) = 0
  /\ \A i \in Interval : Grant(Entry(i)) = 1
  BY PublishingAssumption DEF Grant, NoEntry, Entry

LEMMA ResetPermits == Permissions(ResetFilter) = DenyAll
  BY GrantOf DEF Permissions, ResetFilter, DenyAll

\* Permissions of a filter that differs in the entry of one PID.
LEMMA GrantOne ==
  ASSUME NEW f, NEW g, NEW x \in Pid,
         NEW e, Grant(e) = 1,
         f.pids = [p \in Pid |-> f.pids[p]],
         g.all = f.all,
         g.pids = [f.pids EXCEPT ![x] = e]
  PROVE  Permissions(g) = [Permissions(f) EXCEPT !.pids[x] = 1]
<1> DEFINE F == [p \in Pid |-> Grant(f.pids[p])]
           a == Grant(f.all)
<1>1. Permissions(f) = [all |-> a, pids |-> F]
  BY DEF Permissions
<1>2. [p \in Pid |-> Grant(g.pids[p])] = [F EXCEPT ![x] = 1]
  OBVIOUS
<1>3. Permissions(g) = [all |-> a, pids |-> [F EXCEPT ![x] = 1]]
  BY <1>2 DEF Permissions
<1> HIDE DEF F, a
<1>4. [[all |-> a, pids |-> F] EXCEPT !.pids[x] = 1]
        = [all |-> a, pids |-> [F EXCEPT ![x] = 1]]
  OBVIOUS
<1> QED BY <1>1, <1>3, <1>4

\* A write of the app does to the timed filter's permissions what it does to
\* the permissions alone (CanFilter::handleWrite), and keeps its type.
LEMMA WritePermits ==
  ASSUME NEW f \in FilterSpace, NEW w \in Writes
  PROVE  /\ ApplyWrite(f, w) \in FilterSpace
         /\ Permissions(ApplyWrite(f, w)) = HandleWrite(Permissions(f), w)
<1> DEFINE P == Permissions(f)
<1>1. Listed(P) = InTable(f)
  BY ListedIsTable
<1>2. w.from = 1
  BY DEF Writes
<1>3. CASE w.cmd = "denyAll"
  <2>1. ApplyWrite(f, w) = ResetFilter
    BY <1>3 DEF ApplyWrite
  <2>2. HandleWrite(P, w) = DenyAll
    BY <1>3 DEF HandleWrite
  <2> QED BY <2>1, <2>2, ResetTyped, ResetPermits
<1>4. CASE w.cmd = "allowAll"
  <2> DEFINE g == [ResetFilter EXCEPT !.all = Entry(w.interval)]
  <2>1. ApplyWrite(f, w) = g
    BY <1>4 DEF ApplyWrite
  <2>2. HandleWrite(P, w) = [DenyAll EXCEPT !.all = 1]
    BY <1>4, <1>2 DEF HandleWrite
  <2>3. w.interval \in Interval
    BY <1>4 DEF Writes
  <2>4. Entry(w.interval) \in Entries /\ Grant(Entry(w.interval)) = 1
    BY <2>3, EntryTyped, GrantOf
  <2>5. g \in FilterSpace
    BY <2>4, ResetTyped DEF FilterSpace
  <2>6. g.all = Entry(w.interval) /\ g.pids = [p \in Pid |-> NoEntry]
    BY DEF ResetFilter
  <2>7. Permissions(g) = [all |-> 1, pids |-> [p \in Pid |-> 0]]
    BY <2>6, <2>4, GrantOf DEF Permissions
  <2> QED BY <2>1, <2>2, <2>5, <2>7 DEF DenyAll
<1>5. CASE w.cmd = "allowOne" /\ w.pid \in InTable(f)
  <2> DEFINE g == [f EXCEPT !.pids[w.pid].interval = w.interval]
  <2>1. ApplyWrite(f, w) = g
    BY <1>5 DEF ApplyWrite
  <2>2. HandleWrite(P, w) = [P EXCEPT !.pids[w.pid] = 1]
    BY <1>5, <1>1, <1>2 DEF HandleWrite
  <2>3. w.interval \in Interval /\ w.pid \in Pid
    BY <1>5 DEF Writes
  <2> DEFINE e == [f.pids[w.pid] EXCEPT !.interval = w.interval]
  <2>4. g = [f EXCEPT !.pids = [f.pids EXCEPT ![w.pid] = e]]
    BY DEF FilterSpace
  <2>5. f.pids[w.pid] \in Entries
    BY <2>3 DEF FilterSpace
  <2>6. e \in Entries /\ e.interval = w.interval
    BY <2>3, <2>5 DEF Entries
  <2>7. Grant(e) = 1
    BY <2>3, <2>6, PublishingAssumption DEF Grant
  <2>8. g \in FilterSpace
    BY <2>4, <2>6 DEF FilterSpace
  <2>9. g.all = f.all /\ g.pids = [f.pids EXCEPT ![w.pid] = e]
    BY <2>4 DEF FilterSpace
  <2>10. f.pids = [p \in Pid |-> f.pids[p]]
    BY DEF FilterSpace
  <2> HIDE DEF g, P, e
  <2>11. Permissions(g) = [Permissions(f) EXCEPT !.pids[w.pid] = 1]
    BY <2>3, <2>7, <2>9, <2>10, GrantOne
  <2> QED BY <2>1, <2>2, <2>8, <2>11 DEF P
<1>6. CASE /\ w.cmd = "allowOne" /\ w.pid \notin InTable(f)
           /\ Cardinality(InTable(f)) < MaxPids
  <2> DEFINE e == Entry(w.interval)
             g == [f EXCEPT !.pids[w.pid] = e]
  <2>1. ApplyWrite(f, w) = g
    BY <1>6 DEF ApplyWrite
  <2>2. HandleWrite(P, w) = [P EXCEPT !.pids[w.pid] = 1]
    BY <1>6, <1>1, <1>2 DEF HandleWrite
  <2>3. w.interval \in Interval /\ w.pid \in Pid
    BY <1>6 DEF Writes
  <2>4. e \in Entries /\ Grant(e) = 1
    BY <2>3, EntryTyped, GrantOf
  <2>5. g \in FilterSpace
    BY <2>4 DEF FilterSpace
  <2>6. g.all = f.all /\ g.pids = [f.pids EXCEPT ![w.pid] = e]
    BY DEF FilterSpace
  <2>7. f.pids = [p \in Pid |-> f.pids[p]]
    BY DEF FilterSpace
  <2> HIDE DEF e, g, P
  <2>8. Permissions(g) = [Permissions(f) EXCEPT !.pids[w.pid] = 1]
    BY <2>3, <2>4, <2>6, <2>7, GrantOne
  <2> QED BY <2>1, <2>2, <2>5, <2>8 DEF P
<1>7. CASE \/ w.cmd = "malformed"
           \/ /\ w.cmd = "allowOne" /\ w.pid \notin InTable(f)
              /\ ~(Cardinality(InTable(f)) < MaxPids)
  <2>1. ApplyWrite(f, w) = f
    BY <1>7 DEF ApplyWrite
  <2>2. HandleWrite(P, w) = P
    BY <1>7, <1>1 DEF HandleWrite
  <2> QED BY <2>1, <2>2
<1>8. w.cmd \in {"denyAll", "allowAll", "allowOne", "malformed"}
  BY DEF Writes
<1> QED BY <1>3, <1>4, <1>5, <1>6, <1>7, <1>8

\* Using an entry starts its clock and changes no permission.
LEMMA UsePermits ==
  ASSUME NEW f \in FilterSpace, NEW c \in Pid, NEW t \in Instant
  PROVE  /\ Notified(f, c, t) \in FilterSpace
         /\ Permissions(Notified(f, c, t)) = Permissions(f)
<1>1. Acquired(t) \in Limiters
  BY AcquiredTyped
<1>2. CASE c \in InTable(f)
  <2> DEFINE e == [f.pids[c] EXCEPT !.limit = Acquired(t)]
             g == [f EXCEPT !.pids = [f.pids EXCEPT ![c] = e]]
  <2>1. Notified(f, c, t) = g
    BY <1>2 DEF Notified, FilterSpace
  <2>2. f.pids[c] \in Entries
    BY DEF FilterSpace
  <2>3. e \in Entries /\ e.interval = f.pids[c].interval
    BY <1>1, <2>2 DEF Entries
  <2>4. Grant(e) = Grant(f.pids[c])
    BY <2>3 DEF Grant
  <2>5. g \in FilterSpace
    BY <2>3 DEF FilterSpace
  <2>6. g.all = f.all /\ g.pids = [f.pids EXCEPT ![c] = e]
    BY DEF FilterSpace
  <2> HIDE DEF e
  <2>7. [p \in Pid |-> Grant(g.pids[p])] = [p \in Pid |-> Grant(f.pids[p])]
    BY <2>4, <2>6 DEF FilterSpace
  <2> QED BY <2>1, <2>5, <2>6, <2>7 DEF Permissions
<1>3. CASE c \notin InTable(f)
  <2> DEFINE e == [f.all EXCEPT !.limit = Acquired(t)]
             g == [f EXCEPT !.all = e]
  <2>1. Notified(f, c, t) = g
    BY <1>3 DEF Notified, FilterSpace
  <2>2. f.all \in Entries
    BY DEF FilterSpace
  <2>3. e \in Entries /\ e.interval = f.all.interval
    BY <1>1, <2>2 DEF Entries
  <2>4. Grant(e) = Grant(f.all)
    BY <2>3 DEF Grant
  <2>5. g \in FilterSpace
    BY <2>3 DEF FilterSpace
  <2>6. g.all = e /\ g.pids = f.pids
    BY DEF FilterSpace
  <2> QED BY <2>1, <2>4, <2>5, <2>6 DEF Permissions
<1> QED BY <1>2, <1>3

-----------------------------------------------------------------------------
(* Unsigned differences on a wrapping clock. *)

\* A difference grows by at most the time that passes: when the clock wraps past
\* it, it only becomes smaller.
LEMMA ElapsedGrows ==
  ASSUME NEW t \in Instant, NEW l \in Instant, NEW d \in Nat
  PROVE  Elapsed(After(t, d), l) \in Nat /\ Elapsed(After(t, d), l) <= Elapsed(t, l) + d
<1> DEFINE M == ClockMod
           q == (t + d) \div M
           a == (t + d) % M
<1>1. M \in Nat \ {0} /\ t \in 0 .. M - 1 /\ l \in 0 .. M - 1
  BY ClockAssumption DEF Instant
<1>2. q \in Nat /\ a \in 0 .. M - 1 /\ t + d = M * q + a
  BY <1>1
<1>3. (t - l) % M = IF l <= t THEN t - l ELSE t - l + M
  BY <1>1
<1> HIDE DEF a
<1>4. (a - l) % M = IF l <= a THEN a - l ELSE a - l + M
  BY <1>1, <1>2
<1>5. M * q >= 0 /\ (q # 0 => M * q >= M)
  BY <1>1, <1>2
<1>6. (a - l) % M \in Nat /\ (a - l) % M <= ((t - l) % M) + d
  <2>1. CASE q = 0
    <3>1. a = t + d
      BY <1>1, <1>2, <2>1
    <3> QED BY <3>1, <1>1, <1>2, <1>3, <1>4
  <2>2. CASE q # 0
    <3> DEFINE r == M * q
    <3>1. r \in Int /\ r >= M /\ t + d = r + a
      BY <1>1, <1>2, <1>5, <2>2
    <3> HIDE DEF r, q
    <3> QED BY <3>1, <1>1, <1>2, <1>3, <1>4
  <2> QED BY <2>1, <2>2
<1> QED BY <1>6 DEF Elapsed, After, a

LEMMA ElapsedNone ==
  ASSUME NEW t \in Instant
  PROVE  Elapsed(t, t) = 0
  BY ClockAssumption DEF Elapsed, Instant

\* What links a limiter l, read at t, to the real time since it was last
\* acquired: the difference the code computes never exceeds it.
RateSound(t, l, age) == age = MaxAge \/ (l.primed /\ Elapsed(t, l.last) <= age)

LEMMA SoundLater ==
  ASSUME NEW t \in Instant, NEW l \in Limiters, NEW age \in 0 .. MaxAge, NEW d \in Nat,
         RateSound(t, l, age)
  PROVE  RateSound(After(t, d), l, Older(age, d))
<1>1. l.last \in Instant
  BY DEF Limiters
<1>2. Elapsed(t, l.last) \in Nat
  BY <1>1, ClockAssumption DEF Elapsed, Instant
<1>3. /\ Elapsed(After(t, d), l.last) \in Nat
      /\ Elapsed(After(t, d), l.last) <= Elapsed(t, l.last) + d
  BY <1>1, ElapsedGrows
<1> QED BY <1>2, <1>3, PublishingAssumption DEF RateSound, Older

LEMMA SoundNow ==
  ASSUME NEW t \in Instant
  PROVE  RateSound(t, Acquired(t), 0)
  BY ElapsedNone DEF RateSound, Acquired

\* A limiter that lets an interval pass has had that much real time.
LEMMA SoundAcquire ==
  ASSUME NEW t \in Instant, NEW l \in Limiters, NEW age \in 0 .. MaxAge,
         NEW i \in Nat, i <= MaxAge, RateSound(t, l, age), MayAcquire(l, i, t)
  PROVE  age >= i
<1>1. l.last \in Instant
  BY DEF Limiters
<1>2. Elapsed(t, l.last) \in Nat
  BY <1>1, ClockAssumption DEF Elapsed, Instant
<1> QED BY <1>2, PublishingAssumption DEF RateSound, MayAcquire

-----------------------------------------------------------------------------
(* The inductive invariant: besides types and permissions, no limiter has    *)
(* been idle for less real time than the code will compute.                  *)

MotionSound == RateSound(now, motionRate, rateAge[MotionPid])

EntrySound(t, f, ages, k) ==
  RateSound(t, (IF k = "all" THEN f.all ELSE f.pids[k]).limit, ages[k])

EntriesSound == \A k \in Keys : EntrySound(now, filter, useAge, k)

PubInv == TypeOK /\ FilterKeepsPermissions /\ MotionSound /\ EntriesSound

LEMMA InitPubInv == Init => PubInv
<1> SUFFICES ASSUME Init PROVE PubInv
  OBVIOUS
<1>1. MaxAge \in 0 .. MaxAge
  BY PublishingAssumption
<1>2. TypeOK
  <2>1. filter \in [all : Entries, pids : [Pid -> Entries]]
    BY ResetTyped DEF Init, FilterSpace
  <2>2. now \in Instant
    BY ClockAssumption DEF Init, Instant
  <2>3. permitted \in Filters({1})
    BY DEF Init, DenyAll, Filters
  <2>4. rateAge \in [Channel -> 0 .. MaxAge] /\ useAge \in [Keys -> 0 .. MaxAge]
    BY <1>1 DEF Init, NoAges
  <2> QED BY <2>1, <2>2, <2>3, <2>4, UnprimedTyped DEF Init, TypeOK
<1>3. FilterKeepsPermissions
  BY ResetPermits DEF Init, FilterKeepsPermissions
<1>4. MotionSound /\ EntriesSound
  BY PublishingAssumption
     DEF Init, MotionSound, EntriesSound, EntrySound, RateSound, NoAges, Channel
<1> QED BY <1>2, <1>3, <1>4 DEF PubInv

\* Ages that have all started over say nothing.
LEMMA FreshAges ==
  ASSUME NEW t, NEW f, NEW k \in Keys
  PROVE  EntrySound(t, f, NoAges, k)
  BY DEF EntrySound, RateSound, NoAges

\* The entry a channel uses, and what the code then does to it.
LEMMA UsedEntry ==
  ASSUME NEW f \in FilterSpace, NEW c \in Channel
  PROVE  /\ KeyOf(f, c) \in Keys
         /\ (IF KeyOf(f, c) = "all" THEN f.all ELSE f.pids[KeyOf(f, c)]) = Governing(f, c)
         /\ Governing(f, c) \in Entries
<1>1. c \in Pid /\ c # "all"
  BY PublishingAssumption DEF Channel
<1> QED BY <1>1 DEF KeyOf, Keys, Governing, FilterSpace, InTable

LEMMA UsedSound ==
  ASSUME NEW f \in FilterSpace, NEW c \in Channel, NEW t \in Instant,
         NEW ages \in [Keys -> 0 .. MaxAge],
         \A k \in Keys : EntrySound(t, f, ages, k)
  PROVE  \A k \in Keys :
           EntrySound(t, Notified(f, c, t), [ages EXCEPT ![KeyOf(f, c)] = 0], k)
<1>1. c \in Pid /\ c # "all"
  BY PublishingAssumption DEF Channel
<1> SUFFICES ASSUME NEW k \in Keys
             PROVE  EntrySound(t, Notified(f, c, t), [ages EXCEPT ![KeyOf(f, c)] = 0], k)
  OBVIOUS
<1> DEFINE g == Notified(f, c, t)
           e == IF k = "all" THEN g.all ELSE g.pids[k]
           old == IF k = "all" THEN f.all ELSE f.pids[k]
<1>2. CASE k = KeyOf(f, c)
  <2>1. e.limit = Acquired(t)
    BY <1>1, <1>2 DEF KeyOf, Notified, InTable, FilterSpace, Entries
  <2> QED BY <2>1, <1>2, SoundNow DEF EntrySound
<1>3. CASE k # KeyOf(f, c)
  <2>1. e = old
    BY <1>1, <1>3 DEF KeyOf, Keys, Notified, InTable, FilterSpace, Entries
  <2>2. [ages EXCEPT ![KeyOf(f, c)] = 0][k] = ages[k]
    BY <1>3
  <2> QED BY <2>1, <2>2 DEF EntrySound
<1> QED BY <1>2, <1>3

\* publishCan: what Offer keeps, and what it needs before it offers.
LEMMA OfferKeeps ==
  ASSUME PubInv, NEW c \in Channel, Offer(c)
  PROVE  /\ filter' \in FilterSpace
         /\ Permissions(filter') = Permissions(filter)
         /\ rateAge' = [rateAge EXCEPT ![c] = 0]
         /\ useAge' \in [Keys -> 0 .. MaxAge]
         /\ \A k \in Keys : EntrySound(now, filter', useAge', k)
         /\ offered' \subseteq {c}
         /\ c \in offered' => /\ Allowed(permitted, c)
                              /\ useAge[KeyOf(filter, c)] >= Governing(filter, c).interval
<1>1. filter \in FilterSpace /\ now \in Instant /\ useAge \in [Keys -> 0 .. MaxAge]
  BY DEF PubInv, TypeOK, FilterSpace
<1>2. c \in Pid
  BY PublishingAssumption DEF Channel
<1>3. 0 \in 0 .. MaxAge
  BY PublishingAssumption
<1>4. \A k \in Keys : EntrySound(now, filter, useAge, k)
  BY DEF PubInv, EntriesSound
<1>5. CASE ShouldNotify(filter, c, now)
  <2> DEFINE e == Governing(filter, c)
  <2>1. /\ filter' = Notified(filter, c, now) /\ offered' = {c}
        /\ useAge' = [useAge EXCEPT ![KeyOf(filter, c)] = 0]
        /\ rateAge' = [rateAge EXCEPT ![c] = 0]
    BY <1>5 DEF Offer
  <2>2. /\ filter' \in FilterSpace /\ Permissions(filter') = Permissions(filter)
    BY <2>1, <1>1, <1>2, UsePermits
  <2>3. useAge' \in [Keys -> 0 .. MaxAge]
    BY <2>1, <1>1, <1>3
  <2>4. \A k \in Keys : EntrySound(now, filter', useAge', k)
    BY <2>1, <1>1, <1>4, UsedSound
  <2>5. Allowed(permitted, c)
    <3>1. IsAllowed(filter, c)
      BY <1>5 DEF ShouldNotify
    <3>2. permitted = Permissions(filter)
      BY DEF PubInv, FilterKeepsPermissions
    <3> QED BY <3>1, <3>2, <1>2 DEF IsAllowed, Allowed, Permissions, Grant, InTable
  <2>6. useAge[KeyOf(filter, c)] >= e.interval
    <3>1. KeyOf(filter, c) \in Keys /\ e \in Entries
      BY <1>1, UsedEntry
    <3>2. RateSound(now, e.limit, useAge[KeyOf(filter, c)])
      BY <1>1, <1>4, <3>1, UsedEntry DEF EntrySound
    <3>3. MayAcquire(e.limit, e.interval, now)
      BY <1>5 DEF ShouldNotify
    <3>4. e.limit \in Limiters /\ e.interval \in Interval \cup {-1}
      BY <3>1 DEF Entries
    <3>5. useAge[KeyOf(filter, c)] \in 0 .. MaxAge
      BY <1>1, <3>1
    <3> HIDE DEF e
    <3>6. CASE e.interval = -1
      BY <3>5, <3>6
    <3>7. CASE e.interval \in Interval
      <4>1. e.interval \in Nat /\ e.interval <= MaxAge
        BY <3>7, PublishingAssumption
      <4> QED BY <4>1, <3>2, <3>3, <3>4, <3>5, <1>1, SoundAcquire
    <3> QED BY <3>4, <3>6, <3>7
  <2> QED BY <2>1, <2>2, <2>3, <2>4, <2>5, <2>6
<1>6. CASE ~ShouldNotify(filter, c, now)
  <2>1. /\ UNCHANGED <<filter, useAge>> /\ offered' = {}
        /\ rateAge' = [rateAge EXCEPT ![c] = 0]
    BY <1>6 DEF Offer
  <2> QED BY <2>1, <1>1, <1>4
<1> QED BY <1>5, <1>6

-----------------------------------------------------------------------------
(* Every action. *)

LEMMA PermissionsTyped ==
  ASSUME NEW f
  PROVE  Permissions(f) \in Filters({1})
  BY DEF Permissions, Filters, Grant

\* A write leaves the clock of every entry it neither removes nor creates.
LEMMA UntouchedLimit ==
  ASSUME NEW f \in FilterSpace, NEW w \in Writes, NEW k \in Keys,
         w.cmd \notin {"denyAll", "allowAll"},
         ~(w.cmd = "allowOne" /\ k = w.pid /\ w.pid \notin InTable(f))
  PROVE  LET g == ApplyWrite(f, w)
         IN  (IF k = "all" THEN g.all ELSE g.pids[k]).limit
               = (IF k = "all" THEN f.all ELSE f.pids[k]).limit
<1>1. w.cmd \in {"allowOne", "malformed"} /\ (w.cmd = "allowOne" => w.pid \in Pid)
  BY DEF Writes
<1>2. CASE w.cmd = "allowOne" /\ w.pid \in InTable(f)
  <2>1. ApplyWrite(f, w)
          = [f EXCEPT !.pids = [f.pids EXCEPT ![w.pid] =
                                  [f.pids[w.pid] EXCEPT !.interval = w.interval]]]
    BY <1>2 DEF ApplyWrite, FilterSpace
  <2> QED BY <2>1, <1>1, <1>2 DEF Keys, FilterSpace, Entries
<1>3. CASE /\ w.cmd = "allowOne" /\ w.pid \notin InTable(f)
           /\ Cardinality(InTable(f)) < MaxPids
  <2>1. ApplyWrite(f, w)
          = [f EXCEPT !.pids = [f.pids EXCEPT ![w.pid] = Entry(w.interval)]]
    BY <1>3 DEF ApplyWrite, FilterSpace
  <2> QED BY <2>1, <1>1, <1>3 DEF Keys, FilterSpace
<1>4. CASE \/ w.cmd = "malformed"
           \/ /\ w.cmd = "allowOne" /\ w.pid \notin InTable(f)
              /\ ~(Cardinality(InTable(f)) < MaxPids)
  <2>1. ApplyWrite(f, w) = f
    BY <1>4 DEF ApplyWrite
  <2> QED BY <2>1
<1> QED BY <1>1, <1>2, <1>3, <1>4

LEMMA NextPubInv == PubInv /\ [Next]_vars => PubInv'
<1> SUFFICES ASSUME PubInv, [Next]_vars PROVE PubInv'
  OBVIOUS
<1> USE DEF PubInv
<1>a. filter \in FilterSpace /\ permitted = Permissions(filter)
  BY DEF TypeOK, FilterSpace, FilterKeepsPermissions
<1>b. MaxAge \in 0 .. MaxAge /\ 0 \in 0 .. MaxAge
  BY PublishingAssumption
<1>c. DenyAll \in Filters({1}) /\ NoAges \in [Keys -> 0 .. MaxAge]
  BY <1>b DEF DenyAll, Filters, NoAges
<1>d. MotionPid \in Channel /\ StatusPid \in Channel /\ MotionPid # StatusPid
  BY PublishingAssumption DEF Channel
<1>1. CASE Link
  BY <1>1 DEF Link, TypeOK, FilterKeepsPermissions, MotionSound, EntriesSound
<1>2. CASE OnConnect
  <2>1. TypeOK'
    BY <1>2, <1>b, <1>c, ResetTyped, UnprimedTyped DEF OnConnect, TypeOK, FilterSpace
  <2>2. FilterKeepsPermissions'
    BY <1>2, ResetPermits DEF OnConnect, FilterKeepsPermissions
  <2>3. MotionSound'
    BY <1>2, <1>d DEF OnConnect, MotionSound, RateSound
  <2>4. EntriesSound'
    BY <1>2, FreshAges DEF OnConnect, EntriesSound
  <2> QED BY <2>1, <2>2, <2>3, <2>4
<1>3. CASE OnDisconnect
  <2>1. TypeOK'
    BY <1>3, <1>c, ResetTyped DEF OnDisconnect, TypeOK, FilterSpace
  <2>2. FilterKeepsPermissions'
    BY <1>3, ResetPermits DEF OnDisconnect, FilterKeepsPermissions
  <2>3. MotionSound'
    BY <1>3 DEF OnDisconnect, MotionSound
  <2>4. EntriesSound'
    BY <1>3, FreshAges DEF OnDisconnect, EntriesSound
  <2> QED BY <2>1, <2>2, <2>3, <2>4
<1>4. CASE ResetSession
  <2>1. TypeOK'
    BY <1>4, <1>b, UnprimedTyped DEF ResetSession, TypeOK
  <2>2. FilterKeepsPermissions'
    BY <1>4 DEF ResetSession, FilterKeepsPermissions
  <2>3. MotionSound'
    BY <1>4, <1>d DEF ResetSession, MotionSound, RateSound
  <2>4. EntriesSound'
    BY <1>4 DEF ResetSession, EntriesSound
  <2> QED BY <2>1, <2>2, <2>3, <2>4
<1>5. ASSUME NEW w \in Writes, OnCanFilterWrite(w)
      PROVE  PubInv'
  <2>1. filter' \in FilterSpace /\ Permissions(filter') = permitted'
    BY <1>5, <1>a, WritePermits DEF OnCanFilterWrite
  <2>2. permitted' \in Filters({1})
    BY <2>1, PermissionsTyped
  <2>3. useAge' \in [Keys -> 0 .. MaxAge]
    BY <1>5, <1>b DEF OnCanFilterWrite, TypeOK
  <2>4. TypeOK'
    BY <1>5, <2>1, <2>2, <2>3 DEF OnCanFilterWrite, TypeOK, FilterSpace
  <2>5. FilterKeepsPermissions'
    BY <2>1 DEF FilterKeepsPermissions
  <2>6. MotionSound'
    BY <1>5 DEF OnCanFilterWrite, MotionSound
  <2>7. EntriesSound'
    <3> SUFFICES ASSUME NEW k \in Keys PROVE EntrySound(now', filter', useAge', k)
      BY DEF EntriesSound
    <3>1. CASE useAge'[k] = MaxAge
      BY <3>1 DEF EntrySound, RateSound
    <3>2. CASE useAge'[k] # MaxAge
      <4>1. /\ useAge'[k] = useAge[k]
            /\ w.cmd \notin {"denyAll", "allowAll"}
            /\ ~(w.cmd = "allowOne" /\ k = w.pid /\ w.pid \notin InTable(filter))
        BY <1>5, <3>2 DEF OnCanFilterWrite
      <4>2. (IF k = "all" THEN filter'.all ELSE filter'.pids[k]).limit
              = (IF k = "all" THEN filter.all ELSE filter.pids[k]).limit
        BY <1>5, <1>a, <4>1, UntouchedLimit DEF OnCanFilterWrite
      <4> QED BY <1>5, <4>1, <4>2 DEF OnCanFilterWrite, EntriesSound, EntrySound
    <3> QED BY <3>1, <3>2
  <2> QED BY <2>4, <2>5, <2>6, <2>7
<1>6. CASE Turn
  <2>1. PICK d \in Nat : Pass(d)
    BY <1>6, PublishingAssumption DEF Turn
  <2>2. now \in Instant /\ motionRate \in Limiters
    BY DEF TypeOK
  <2>3. rateAge \in [Channel -> 0 .. MaxAge] /\ useAge \in [Keys -> 0 .. MaxAge]
    BY DEF TypeOK
  <2>4. /\ now' \in Instant
        /\ rateAge' \in [Channel -> 0 .. MaxAge] /\ useAge' \in [Keys -> 0 .. MaxAge]
    BY <2>1, <2>2, <2>3, AfterTyped, OlderTyped DEF Pass
  <2>5. TypeOK'
    BY <1>6, <2>4 DEF Turn, TypeOK
  <2>6. FilterKeepsPermissions'
    BY <1>6 DEF Turn, FilterKeepsPermissions
  <2>7. MotionSound'
    <3>1. /\ rateAge'[MotionPid] = Older(rateAge[MotionPid], d) /\ now' = After(now, d)
          /\ motionRate' = motionRate
      BY <1>6, <2>1, <1>d DEF Pass, Turn
    <3>2. rateAge[MotionPid] \in 0 .. MaxAge
      BY <2>3, <1>d
    <3>3. RateSound(now, motionRate, rateAge[MotionPid])
      BY DEF MotionSound
    <3> QED BY <3>1, <3>2, <3>3, <2>2, SoundLater DEF MotionSound
  <2>8. EntriesSound'
    <3> SUFFICES ASSUME NEW k \in Keys PROVE EntrySound(now', filter', useAge', k)
      BY DEF EntriesSound
    <3> DEFINE e == IF k = "all" THEN filter.all ELSE filter.pids[k]
    <3>1. useAge'[k] = Older(useAge[k], d) /\ now' = After(now, d) /\ filter' = filter
      BY <1>6, <2>1 DEF Pass, Turn
    <3>2. e \in Entries /\ useAge[k] \in 0 .. MaxAge
      BY <1>a, <2>3 DEF FilterSpace, Keys
    <3>3. RateSound(now, e.limit, useAge[k])
      BY DEF EntriesSound, EntrySound
    <3>4. e.limit \in Limiters
      BY <3>2 DEF Entries
    <3> HIDE DEF e
    <3>5. RateSound(After(now, d), e.limit, Older(useAge[k], d))
      BY <3>2, <3>3, <3>4, <2>2, SoundLater
    <3> QED BY <3>1, <3>5 DEF EntrySound, e
  <2> QED BY <2>5, <2>6, <2>7, <2>8
<1>7. CASE OnMotionSample
  <2>1. CASE connected /\ MayAcquire(motionRate, MotionInterval, now)
    <3>1. Offer(MotionPid) /\ motionRate' = Acquired(now)
      BY <1>7, <2>1 DEF OnMotionSample
    <3>2. now' = now /\ connected' = connected /\ statusRate' = statusRate
          /\ permitted' = permitted /\ pc' = "tick"
      BY <1>7 DEF OnMotionSample
    <3>3. /\ filter' \in FilterSpace
          /\ Permissions(filter') = Permissions(filter)
          /\ rateAge' = [rateAge EXCEPT ![MotionPid] = 0]
          /\ useAge' \in [Keys -> 0 .. MaxAge]
          /\ \A k \in Keys : EntrySound(now, filter', useAge', k)
          /\ offered' \subseteq {MotionPid}
      BY <3>1, <1>d, OfferKeeps
    <3>4. TypeOK'
      BY <3>1, <3>2, <3>3, <1>b, <1>d, AcquiredTyped DEF TypeOK, FilterSpace
    <3>5. FilterKeepsPermissions'
      BY <3>2, <3>3, <1>a DEF FilterKeepsPermissions
    <3>6. MotionSound'
      BY <3>1, <3>2, <3>3, <1>d, SoundNow DEF MotionSound, TypeOK
    <3>7. EntriesSound'
      BY <3>2, <3>3 DEF EntriesSound
    <3> QED BY <3>4, <3>5, <3>6, <3>7
  <2>2. CASE ~(connected /\ MayAcquire(motionRate, MotionInterval, now))
    BY <1>7, <2>2
       DEF OnMotionSample, TypeOK, FilterKeepsPermissions, MotionSound, EntriesSound
  <2> QED BY <2>1, <2>2
<1>8. CASE Tick
  <2>1. CASE connected /\ MayAcquire(statusRate, StatusInterval, now)
    <3>1. Offer(StatusPid) /\ statusRate' = Acquired(now)
      BY <1>8, <2>1 DEF Tick
    <3>2. now' = now /\ connected' = connected /\ motionRate' = motionRate
          /\ permitted' = permitted /\ pc' = "drain"
      BY <1>8 DEF Tick
    <3>3. /\ filter' \in FilterSpace
          /\ Permissions(filter') = Permissions(filter)
          /\ rateAge' = [rateAge EXCEPT ![StatusPid] = 0]
          /\ useAge' \in [Keys -> 0 .. MaxAge]
          /\ \A k \in Keys : EntrySound(now, filter', useAge', k)
          /\ offered' \subseteq {StatusPid}
      BY <3>1, <1>d, OfferKeeps
    <3>4. TypeOK'
      BY <3>1, <3>2, <3>3, <1>b, <1>d, AcquiredTyped DEF TypeOK, FilterSpace
    <3>5. FilterKeepsPermissions'
      BY <3>2, <3>3, <1>a DEF FilterKeepsPermissions
    <3>6. MotionSound'
      BY <3>2, <3>3, <1>d DEF MotionSound, TypeOK
    <3>7. EntriesSound'
      BY <3>2, <3>3 DEF EntriesSound
    <3> QED BY <3>4, <3>5, <3>6, <3>7
  <2>2. CASE ~(connected /\ MayAcquire(statusRate, StatusInterval, now))
    BY <1>8, <2>2 DEF Tick, TypeOK, FilterKeepsPermissions, MotionSound, EntriesSound
  <2> QED BY <2>1, <2>2
<1>9. CASE UNCHANGED vars
  BY <1>9 DEF vars, TypeOK, FilterKeepsPermissions, MotionSound, EntriesSound
<1> QED BY <1>1, <1>2, <1>3, <1>4, <1>5, <1>6, <1>7, <1>8, <1>9 DEF Next

-----------------------------------------------------------------------------
(* The theorems. *)

\* Types (Publishing's variables).
THEOREM TypeCorrect == Spec => []TypeOK
<1>1. PubInv => TypeOK
  BY DEF PubInv
<1> QED BY <1>1, InitPubInv, NextPubInv, PTL DEF Spec

\* The timed filter always allows exactly what the app's writes add up to
\* (CanFilter::handleWrite, shouldNotify).
THEOREM PermissionsKept == Spec => []FilterKeepsPermissions
<1>1. PubInv => FilterKeepsPermissions
  BY DEF PubInv
<1> QED BY <1>1, InitPubInv, NextPubInv, PTL DEF Spec

\* Steps that offer nothing, and the two that may.
LEMMA OfferingSteps ==
  ASSUME PubInv, [Next]_vars
  PROVE  \/ offered' = {}
         \/ UNCHANGED vars
         \/ connected /\ MayAcquire(motionRate, MotionInterval, now) /\ Offer(MotionPid)
         \/ connected /\ Offer(StatusPid)
<1>1. ASSUME NEW w \in Writes, OnCanFilterWrite(w) PROVE offered' = {}
  BY <1>1 DEF OnCanFilterWrite
<1> QED BY <1>1 DEF Next, Link, OnConnect, OnDisconnect, ResetSession, Turn, OnMotionSample, Tick

LEMMA OfferedStep ==
  ASSUME PubInv, [Next]_vars, ~(UNCHANGED vars)
  PROVE  /\ \A c \in offered' :
              /\ connected /\ Allowed(permitted, c)
              /\ useAge[KeyOf(filter, c)] >= Governing(filter, c).interval
         /\ MotionPid \in offered' => rateAge[MotionPid] >= MotionInterval
<1>d. MotionPid \in Channel /\ StatusPid \in Channel /\ MotionPid # StatusPid
  BY PublishingAssumption DEF Channel
<1>1. CASE offered' = {}
  BY <1>1
<1>2. CASE connected /\ MayAcquire(motionRate, MotionInterval, now) /\ Offer(MotionPid)
  <2>1. /\ offered' \subseteq {MotionPid}
        /\ MotionPid \in offered' =>
             /\ Allowed(permitted, MotionPid)
             /\ useAge[KeyOf(filter, MotionPid)] >= Governing(filter, MotionPid).interval
    BY <1>2, <1>d, OfferKeeps
  <2>2. /\ now \in Instant /\ motionRate \in Limiters
        /\ rateAge[MotionPid] \in 0 .. MaxAge
        /\ RateSound(now, motionRate, rateAge[MotionPid])
    BY <1>d DEF PubInv, TypeOK, MotionSound
  <2>3. MotionInterval \in Nat /\ MotionInterval <= MaxAge
    BY PublishingAssumption
  <2>4. rateAge[MotionPid] >= MotionInterval
    BY <1>2, <2>2, <2>3, SoundAcquire
  <2> QED BY <1>2, <2>1, <2>4
<1>3. CASE connected /\ Offer(StatusPid)
  <2>1. /\ offered' \subseteq {StatusPid}
        /\ StatusPid \in offered' =>
             /\ Allowed(permitted, StatusPid)
             /\ useAge[KeyOf(filter, StatusPid)] >= Governing(filter, StatusPid).interval
    BY <1>3, <1>d, OfferKeeps
  <2> QED BY <1>3, <1>d, <2>1
<1> QED BY <1>1, <1>2, <1>3, OfferingSteps

\* The motion channel keeps its ceiling in real time, however long the device
\* has been running: the unsigned difference of a wrapped clock can only delay a
\* sample (onMotionSample, RateLimiter::tryAcquire).
THEOREM MotionCeilingHolds == Spec => MotionCeiling
<1>1. PubInv /\ [Next]_vars
        => [(MotionPid \in offered') => rateAge[MotionPid] >= MotionInterval]_vars
  BY OfferedStep
<1> QED BY <1>1, InitPubInv, NextPubInv, PTL DEF Spec, MotionCeiling

\* The interval the app asked for an entry is honoured in real time, across
\* changes of that interval and the wrap of the clock (CanFilter::shouldNotify).
THEOREM AppIntervalHolds == Spec => AppIntervalHonoured
<1>1. PubInv /\ [Next]_vars
        => [\A c \in offered' :
              useAge[KeyOf(filter, c)] >= Governing(filter, c).interval]_vars
  BY OfferedStep
<1> QED BY <1>1, InitPubInv, NextPubInv, PTL DEF Spec, AppIntervalHonoured

\* Nothing goes out that the app's writes do not permit, nor unconnected
\* (publishCan).
THEOREM OnlyPermitted == Spec => OnlyPermittedOffered
<1>1. PubInv /\ [Next]_vars
        => [\A c \in offered' : Allowed(permitted, c) /\ connected]_vars
  BY OfferedStep
<1> QED BY <1>1, InitPubInv, NextPubInv, PTL DEF Spec, OnlyPermittedOffered
=============================================================================
