-------------------------- MODULE ResultWindowProofs --------------------------
(***************************************************************************)
(* Theorems about the window of a cron job's own results, for every window *)
(* and every length of a lease: types, that a lost notification lease is   *)
(* lost for good, and that no lease is lost in service.                    *)
(***************************************************************************)
EXTENDS ResultWindow, FiniteSetTheorems, TLAPS

-----------------------------------------------------------------------------
(* What the operators make of a window *)

\* A window is a sequence of at most Window runs.
IsWindow(list) == list \in Seq(Entry) /\ Len(list) \in 0..Window

\* A new run comes in front, and the oldest is cut from a full window.
LEMMA ClaimedIs ==
  ASSUME NEW list, IsWindow(list)
  PROVE  /\ IsWindow(Claimed(list)) /\ Len(Claimed(list)) >= 1
         /\ Len(Claimed(list)) = IF Len(list) = Window THEN Window ELSE Len(list) + 1
         /\ Claimed(list)[1] = [kind |-> "quiet", old |-> FALSE]
         /\ \A n \in 2..Len(Claimed(list)) : Claimed(list)[n] = list[n - 1]
  <1> DEFINE new == [kind |-> "quiet", old |-> FALSE]
             longer == <<new>> \o list
  <1>1. Window \in Nat \ {0} /\ Len(list) \in Nat /\ Len(list) <= Window
    BY WindowAssumption DEF IsWindow
  <1>2. new \in Entry
    BY DEF Entry, Kind
  <1>3. /\ longer \in Seq(Entry) /\ Len(longer) = Len(list) + 1 /\ longer[1] = new
        /\ \A n \in 2..Len(longer) : longer[n] = list[n - 1]
    BY <1>2 DEF IsWindow
  <1> HIDE DEF longer, new
  <1>4. CASE Len(longer) > Window
    <2>1. Claimed(list) = SubSeq(longer, 1, Window)
      BY <1>4 DEF Claimed, longer, new
    <2>2. /\ SubSeq(longer, 1, Window) \in Seq(Entry) /\ Len(SubSeq(longer, 1, Window)) = Window
          /\ \A n \in 1..Window : SubSeq(longer, 1, Window)[n] = longer[n]
      BY <1>1, <1>3, <1>4
    <2>3. QED BY <1>1, <1>3, <1>4, <2>1, <2>2 DEF IsWindow, new
  <1>5. CASE ~(Len(longer) > Window)
    <2>1. Claimed(list) = longer
      BY <1>5 DEF Claimed, longer, new
    <2>2. QED BY <1>1, <1>3, <1>5, <2>1 DEF IsWindow, new
  <1>6. QED BY <1>4, <1>5

\* The end of a lease changes kinds only.
LEMMA ForgottenIs ==
  ASSUME NEW list, IsWindow(list)
  PROVE  /\ IsWindow(Forgotten(list)) /\ Len(Forgotten(list)) = Len(list)
         /\ \A n \in 1..Len(list) : Forgotten(list)[n].old = list[n].old
  <1>1. \A n \in 1..Len(list) : Forgotten(list)[n] \in Entry /\ Forgotten(list)[n].old = list[n].old
    <2> SUFFICES ASSUME NEW n \in 1..Len(list)
                 PROVE  Forgotten(list)[n] \in Entry /\ Forgotten(list)[n].old = list[n].old
      OBVIOUS
    <2>1. list[n] \in Entry /\ n \in DOMAIN list
      BY DEF IsWindow
    <2>2. PICK kind \in Kind : Forgotten(list)[n] = [list[n] EXCEPT !.kind = kind]
      <3>1. list[n].kind \in Kind
        BY <2>1 DEF Entry
      <3>2. QED BY <2>1, <3>1 DEF Forgotten, Kind
    <2>3. QED BY <2>1, <2>2 DEF Entry
  <1>2. DOMAIN Forgotten(list) = 1..Len(list) /\ Len(list) \in Nat
    BY DEF IsWindow, Forgotten
  <1>3. Forgotten(list) \in Seq(Entry) /\ Len(Forgotten(list)) = Len(list)
    BY <1>1, <1>2 DEF Forgotten
  <1>4. QED BY <1>1, <1>3 DEF IsWindow

\* A new lease makes every run of the window an old one.
LEMMA StartedIs ==
  ASSUME NEW list, IsWindow(list)
  PROVE  /\ IsWindow(Started(list)) /\ Len(Started(list)) = Len(list)
         /\ \A n \in 1..Len(list) : Started(list)[n].old
  <1>1. \A n \in 1..Len(list) : Forgotten(list)[n] \in Entry
    BY ForgottenIs DEF IsWindow
  <1>2. \A n \in 1..Len(list) : Started(list)[n] \in Entry /\ Started(list)[n].old
    BY <1>1 DEF IsWindow, Started, Entry, Kind
  <1>3. DOMAIN Started(list) = 1..Len(list) /\ Len(list) \in Nat
    BY DEF IsWindow, Started
  <1>4. Started(list) \in Seq(Entry) /\ Len(Started(list)) = Len(list)
    BY <1>2, <1>3 DEF Started
  <1>5. QED BY <1>2, <1>4 DEF IsWindow

\* So does the end of one run.
LEMMA FinishIs ==
  ASSUME TypeOK, NEW n \in DOMAIN runs, Finish(n)
  PROVE  /\ IsWindow(runs') /\ Len(runs') = Len(runs)
         /\ \A m \in 1..Len(runs) : runs'[m].old = runs[m].old
  <1>1. IsWindow(runs) /\ DOMAIN runs = 1..Len(runs)
    BY WindowAssumption DEF TypeOK, IsWindow
  <1>2. PICK kind \in {"answer", "rejected", "unreadable", "quiet"} :
          runs' = [runs EXCEPT ![n].kind = kind]
    BY DEF Finish
  <1> DEFINE entry == [runs[n] EXCEPT !.kind = kind]
  <1>3. entry \in Entry /\ entry.old = runs[n].old
    <2>1. runs[n] \in Entry
      BY <1>1 DEF IsWindow
    <2>2. QED BY <2>1 DEF Entry, Kind
  <1>4. runs' = [runs EXCEPT ![n] = entry]
    BY <1>2
  <1> HIDE DEF entry
  <1>5. QED BY <1>1, <1>3, <1>4 DEF IsWindow

-----------------------------------------------------------------------------
(* Types *)

\* The window of a state, and of the fire that comes next.
LEMMA WindowHere ==
  ASSUME TypeOK
  PROVE  IsWindow(runs) /\ IsWindow(Claimed(runs)) /\ DOMAIN runs = 1..Len(runs)
  <1>1. IsWindow(runs) /\ DOMAIN runs = 1..Len(runs)
    BY WindowAssumption DEF TypeOK, IsWindow
  <1>2. QED BY <1>1, ClaimedIs

\* Every step keeps the types.
LEMMA TypedStep == ASSUME TypeOK, [Next]_vars PROVE TypeOK'
  <1>1. IsWindow(runs')
    <2>1. CASE Fire
      BY <2>1, WindowHere, ForgottenIs, StartedIs DEF Fire, Quiet, Import, GiveBack, TakeLease
    <2>2. ASSUME NEW n \in DOMAIN runs, Finish(n) PROVE IsWindow(runs')
      BY <2>2, FinishIs
    <2>3. CASE Supersede
      BY <2>3, WindowHere, ForgottenIs DEF Supersede
    <2>4. CASE UNCHANGED runs
      BY <2>4, WindowHere
    <2>5. QED BY <2>1, <2>2, <2>3, <2>4 DEF Next, Expire, Toggle, Observe, vars
  <1>2. /\ job' \in {"router", "courier"} /\ held' \in BOOLEAN /\ expired' \in BOOLEAN
        /\ active' \in BOOLEAN /\ board' \in Board
    BY DEF TypeOK, Next, Fire, Quiet, Import, GiveBack, TakeLease, Expire, Finish, Supersede,
           Toggle, Observe, vars
  <1>3. Len(runs') <= Window
    BY <1>1, WindowAssumption DEF IsWindow
  <1>4. QED BY <1>1, <1>2, <1>3 DEF TypeOK, IsWindow

\* The window keeps its bound and its runs their kinds, whatever the job does.
THEOREM WindowIsTyped == Spec => []TypeOK
  <1>1. Init => TypeOK
    <2>1. <<>> \in Seq(Entry) /\ Len(<<>>) <= Window
      BY WindowAssumption
    <2>2. QED BY <2>1 DEF Init, TypeOK, Board
  <1>2. QED BY <1>1, TypedStep, PTL DEF Spec

-----------------------------------------------------------------------------
(* A lost lease *)

\* The runs of a window that were claimed no later than the lease.
HasOld(list) == \E n \in 1..Len(list) : list[n].old

\* A lease that has left the window has left a full one: before that, the
\* collection is complete by being short.
LostIsFull == held => HasOld(runs) \/ Len(runs) = Window

\* What a fire sees of the lease.
LEMMA ClaimedSees ==
  ASSUME TypeOK, LostIsFull, held
  PROVE  /\ HasOld(Claimed(runs)) \/ Len(Claimed(runs)) = Window
         /\ ~HasOld(runs) => ~HasOld(Claimed(runs)) /\ ~Complete(Claimed(runs))
  <1>0. IsWindow(runs) /\ Len(runs) \in Nat /\ Window \in Nat \ {0}
    BY WindowHere, WindowAssumption DEF IsWindow
  <1>1. /\ Len(Claimed(runs)) = IF Len(runs) = Window THEN Window ELSE Len(runs) + 1
        /\ Claimed(runs)[1].old = FALSE
        /\ \A n \in 2..Len(Claimed(runs)) : Claimed(runs)[n] = runs[n - 1]
    BY <1>0, ClaimedIs
  <1>2. CASE HasOld(runs) /\ Len(runs) # Window
    <2>1. PICK n \in 1..Len(runs) : runs[n].old
      BY <1>2 DEF HasOld
    <2>2. n + 1 \in 1..Len(Claimed(runs)) /\ Claimed(runs)[n + 1] = runs[n]
      BY <1>0, <1>1, <1>2
    <2>3. QED BY <1>2, <2>1, <2>2 DEF HasOld
  <1>3. CASE Len(runs) = Window
    <2>1. ASSUME ~HasOld(runs), NEW n \in 1..Len(Claimed(runs)) PROVE ~Claimed(runs)[n].old
      BY <1>0, <1>1, <1>3, <2>1 DEF HasOld
    <2>2. QED BY <1>0, <1>1, <1>3, <2>1 DEF HasOld, Complete
  <1>4. QED BY <1>2, <1>3 DEF LostIsFull

\* A step that has no lease left, or a new one, says nothing of an old one.
LEMMA LostIsFullStep == ASSUME TypeOK, LostIsFull, [Next]_vars PROVE LostIsFull'
  <1>1. CASE Fire
    <2> DEFINE list == Claimed(runs)
    <2>1. IsWindow(list) /\ Len(list) >= 1
      BY WindowHere, ClaimedIs
    <2> HIDE DEF list
    <2>2. CASE held /\ held' /\ runs' = list
      BY <2>2, ClaimedSees DEF LostIsFull, HasOld, list
    <2>3. CASE runs' = Started(list)
      <3>1. 1 \in 1..Len(runs') /\ runs'[1].old
        BY <2>1, <2>3, StartedIs DEF IsWindow
      <3>2. QED BY <3>1 DEF LostIsFull, HasOld
    <2>4. CASE ~held'
      BY <2>4 DEF LostIsFull
    <2>5. QED
      BY <1>1, <2>2, <2>3, <2>4
      DEF Fire, Quiet, Import, GiveBack, TakeLease, list
  <1>2. ASSUME NEW n \in DOMAIN runs, Finish(n) PROVE LostIsFull'
    BY <1>2, FinishIs DEF LostIsFull, HasOld, Finish
  <1>3. CASE Supersede
    BY <1>3 DEF Supersede, LostIsFull
  <1>4. CASE UNCHANGED <<runs, held>>
    BY <1>4 DEF LostIsFull, HasOld
  <1>5. QED BY <1>1, <1>2, <1>3, <1>4 DEF Next, Expire, Toggle, Observe, vars

\* A notification lease that left the window stays leased and out of it.
LEMMA LostStep ==
  ASSUME TypeOK, LostIsFull, [Next]_vars, job = "courier", Lost
  PROVE  Lost'
  <1>1. held /\ ~HasOld(runs) /\ DOMAIN runs = 1..Len(runs)
    BY WindowHere DEF Lost, HasOld
  <1>2. ASSUME IsWindow(runs'), ~HasOld(runs'), held' PROVE Lost'
    BY <1>2 DEF IsWindow, HasOld, Lost
  <1>3. CASE Fire
    <2>1. ~HasOld(Claimed(runs)) /\ ~Complete(Claimed(runs)) /\ IsWindow(Claimed(runs))
      BY <1>1, ClaimedSees, WindowHere
    <2>2. Quiet(Claimed(runs))
      BY <1>1, <1>3, <2>1 DEF Fire, Import, GiveBack, TakeLease
    <2>3. QED BY <1>1, <1>2, <2>1, <2>2 DEF Quiet
  <1>4. ASSUME NEW n \in DOMAIN runs, Finish(n) PROVE Lost'
    BY <1>1, <1>2, <1>4, FinishIs DEF Finish, HasOld
  <1>5. CASE UNCHANGED <<runs, held>>
    BY <1>5 DEF Lost
  <1>6. QED BY <1>3, <1>4, <1>5 DEF Next, Expire, Supersede, Toggle, Observe, vars

\* Once the run that took a notification lease has left the window, the lease
\* stays as it is: no fire, end of the lease, activation or late result brings
\* the outbox back.
THEOREM LostLeaseStaysLost == Spec => LostIsForever
  <1>1. Init => LostIsFull
    BY DEF Init, LostIsFull
  <1>2. TypeOK /\ LostIsFull /\ [Next]_vars => [job = "courier" /\ Lost => Lost']_vars
    BY LostStep
  <1>3. QED BY <1>1, <1>2, LostIsFullStep, WindowIsTyped, PTL DEF Spec, LostIsForever

-----------------------------------------------------------------------------
(* A lease in service *)

\* The runs that were claimed since the lease are the newest; the run that took it
\* is right behind them, and the next fire does not cut it.  Before the lease is over
\* they are no more than LeaseFires.
NearLease ==
  held => \E k \in Nat :
            /\ k < Len(runs) /\ k + 1 < Window
            /\ \A n \in 1..Len(runs) : runs[n].old <=> n > k
            /\ expired \/ k <= LeaseFires

\* Only a run that was claimed before the lease has an agent or a delivery under way,
\* or a result matched with it.
Under == {"working", "stray", "answer", "rejected"}
UnderIsOld(list) == \A n \in 1..Len(list) : list[n].kind \in Under => list[n].old

\* Then Since counts them.
LEMMA SinceIs ==
  ASSUME TypeOK, NEW k \in Nat, k < Len(runs), \A n \in 1..Len(runs) : runs[n].old <=> n > k
  PROVE  Since = k
  <1>1. Len(runs) \in Nat /\ DOMAIN runs = 1..Len(runs)
    BY WindowHere DEF IsWindow
  <1>2. {n \in DOMAIN runs : ~runs[n].old} = 1..k
    BY <1>1
  <1>3. Cardinality(1..k) = k
    BY FS_Interval
  <1>4. QED BY <1>2, <1>3 DEF Since

\* And the next fire still sees the run, behind at most one more.
LEMMA NearIsInView ==
  ASSUME TypeOK, NEW k \in Nat, k < Len(runs), k + 1 < Window,
         \A n \in 1..Len(runs) : runs[n].old <=> n > k
  PROVE  /\ k + 1 < Len(Claimed(runs)) /\ Complete(Claimed(runs))
         /\ \A n \in 1..Len(Claimed(runs)) : Claimed(runs)[n].old <=> n > k + 1
  <1>1. /\ IsWindow(runs) /\ Len(runs) \in Nat /\ Window \in Nat /\ Len(runs) <= Window
    BY WindowHere, WindowAssumption DEF IsWindow
  <1>2. /\ Len(Claimed(runs)) = IF Len(runs) = Window THEN Window ELSE Len(runs) + 1
        /\ Claimed(runs)[1].old = FALSE
        /\ \A n \in 2..Len(Claimed(runs)) : Claimed(runs)[n] = runs[n - 1]
    BY <1>1, ClaimedIs
  <1>3. k + 1 < Len(Claimed(runs))
    BY <1>1, <1>2
  <1>4. ASSUME NEW n \in 1..Len(Claimed(runs)) PROVE Claimed(runs)[n].old <=> n > k + 1
    <2>1. CASE n = 1
      BY <1>1, <1>2, <2>1
    <2>2. CASE n # 1
      <3>1. n \in 2..Len(Claimed(runs)) /\ n - 1 \in 1..Len(runs)
        BY <1>1, <1>2, <2>2
      <3>2. QED BY <1>1, <1>2, <3>1
    <2>3. QED BY <2>1, <2>2
  <1>5. Complete(Claimed(runs))
    <2>1. Len(Claimed(runs)) \in 1..Len(Claimed(runs)) /\ Len(Claimed(runs)) > k + 1
      BY <1>1, <1>2, <1>3
    <2>2. QED BY <1>4, <2>1 DEF Complete
  <1>6. QED BY <1>3, <1>4, <1>5

\* A window in which all runs are old is near its lease.
LEMMA StartedIsNear ==
  ASSUME NEW list, IsWindow(list), Len(list) >= 1, runs' = Started(list)
  PROVE  NearLease'
  <1>1. /\ 0 \in Nat /\ 0 <= LeaseFires /\ 0 + 1 < Window /\ Len(list) \in Nat
    BY WindowAssumption DEF IsWindow
  <1>2. 0 < Len(runs') /\ \A n \in 1..Len(runs') : runs'[n].old <=> n > 0
    BY <1>1, StartedIs
  <1>3. QED BY <1>1, <1>2 DEF NearLease

\* A new run has nothing under way, and the others stay as they are.
LEMMA ClaimedUnder == ASSUME TypeOK, UnderIsOld(runs) PROVE UnderIsOld(Claimed(runs))
  <1>1. SUFFICES ASSUME NEW n \in 1..Len(Claimed(runs)), Claimed(runs)[n].kind \in Under
                 PROVE  Claimed(runs)[n].old
    BY DEF UnderIsOld
  <1>2. /\ Len(runs) \in Nat /\ Len(Claimed(runs)) \in Nat /\ Len(Claimed(runs)) <= Len(runs) + 1
        /\ Claimed(runs)[1].kind = "quiet"
        /\ \A m \in 2..Len(Claimed(runs)) : Claimed(runs)[m] = runs[m - 1]
    BY WindowHere, ClaimedIs DEF IsWindow
  <1>3. n # 1
    BY <1>1, <1>2 DEF Under
  <1>4. n \in 2..Len(Claimed(runs)) /\ n - 1 \in 1..Len(runs)
    BY <1>2, <1>3
  <1>5. QED BY <1>1, <1>2, <1>4 DEF UnderIsOld

\* Nor does the end of a lease put anything under way.
LEMMA ForgottenUnder ==
  ASSUME NEW list, IsWindow(list), UnderIsOld(list)
  PROVE  UnderIsOld(Forgotten(list))
  <1>1. SUFFICES ASSUME NEW n \in 1..Len(list), Forgotten(list)[n].kind \in Under
                 PROVE  list[n].old
    BY ForgottenIs DEF UnderIsOld
  <1>2. list[n] \in Entry /\ n \in DOMAIN list
    BY DEF IsWindow
  <1>3. list[n].kind \notin Under => Forgotten(list)[n] = list[n]
    BY <1>2 DEF Forgotten, Under, Entry
  <1>4. QED BY <1>1, <1>3 DEF UnderIsOld

\* Every step keeps that.
LEMMA UnderStep == ASSUME TypeOK, UnderIsOld(runs), [Next]_vars PROVE UnderIsOld(runs)'
  <1>1. CASE Fire
    <2> DEFINE list == Claimed(runs)
    <2>1. IsWindow(list) /\ UnderIsOld(list)
      BY WindowHere, ClaimedUnder
    <2>2. runs' \in {list, Forgotten(list), Started(list)}
      BY <1>1 DEF Fire, Quiet, Import, GiveBack, TakeLease
    <2> HIDE DEF list
    <2>3. UnderIsOld(Forgotten(list)) /\ UnderIsOld(Started(list))
      BY <2>1, ForgottenUnder, StartedIs DEF UnderIsOld
    <2>4. QED BY <2>1, <2>2, <2>3 DEF UnderIsOld
  <1>2. ASSUME NEW n \in DOMAIN runs, Finish(n) PROVE UnderIsOld(runs)'
    <2>1. /\ Len(runs') = Len(runs) /\ DOMAIN runs = 1..Len(runs)
          /\ \A m \in 1..Len(runs) : runs'[m].old = runs[m].old
      BY <1>2, FinishIs, WindowHere
    <2>2. runs[n].old
      BY <1>2, <2>1 DEF Finish, UnderIsOld, Under
    <2>3. \A m \in 1..Len(runs) : m # n => runs'[m] = runs[m]
      BY <1>2, <2>1 DEF Finish
    <2>4. QED BY <2>1, <2>2, <2>3 DEF UnderIsOld
  <1>3. CASE Supersede
    <2>1. UnderIsOld(Forgotten(runs))
      BY WindowHere, ForgottenUnder
    <2>2. QED BY <1>3, <2>1 DEF Supersede, UnderIsOld
  <1>4. CASE UNCHANGED runs
    BY <1>4 DEF UnderIsOld
  <1>5. QED BY <1>1, <1>2, <1>3, <1>4 DEF Next, Expire, Toggle, Observe, vars

\* What a run must not be shows in the new window only if it did in the old one.
LEMMA ClaimedLists ==
  ASSUME TypeOK, NEW kind, kind # "quiet", ~Lists(runs, kind)
  PROVE  ~Lists(Claimed(runs), kind)
  <1>1. /\ Claimed(runs)[1].kind = "quiet"
        /\ \A n \in 2..Len(Claimed(runs)) : Claimed(runs)[n] = runs[n - 1]
    BY WindowHere, ClaimedIs
  <1>2. /\ Len(Claimed(runs)) <= Len(runs) + 1
        /\ Len(runs) \in Nat /\ Len(Claimed(runs)) \in Nat
        /\ DOMAIN Claimed(runs) = 1..Len(Claimed(runs))
    BY WindowHere, ClaimedIs DEF IsWindow
  <1>3. \A n \in 1..Len(runs) : runs[n].kind # kind
    BY WindowHere DEF Lists
  <1>4. \A n \in 2..Len(Claimed(runs)) : n - 1 \in 1..Len(runs)
    BY <1>2
  <1>5. QED BY <1>1, <1>2, <1>3, <1>4 DEF Lists

\* In service a result that is matched alone settles the lease.
LEMMA AloneSettles ==
  ASSUME TypeOK, board # "unreadable", NEW list, ~Lists(list, "rejected"),
         Matched(list) # {}, ~Settles(list)
  PROVE  \E m, n \in Matched(list) : m # n
  <1>1. PICK n \in Matched(list) : TRUE
    OBVIOUS
  <1>2. n \in DOMAIN list /\ list[n].kind = "answer"
    BY <1>1 DEF Matched, Lists
  <1>3. job = "courier" \/ board = "changed" \/ board = "same"
    BY DEF TypeOK, Board
  <1>4. Matched(list) # {n}
    BY <1>2, <1>3 DEF Settles
  <1>5. QED BY <1>1, <1>4

\* A fire in service settles a lease that ran out, unless two results are matched
\* with it: then the older of them still keeps the window from moving past the
\* lease.  It finds one that did not run out before its last fire.
LEMMA FireInService ==
  ASSUME TypeOK, NearLease, UnderIsOld(runs), InService, Fire
  PROVE  NearLease'
  <1> DEFINE list == Claimed(runs)
  <1>1. IsWindow(list) /\ Len(list) >= 1 /\ active
    BY WindowHere, ClaimedIs DEF InService
  <1>2. CASE held
    <2>1. PICK k \in Nat :
            /\ k < Len(runs) /\ k + 1 < Window
            /\ \A n \in 1..Len(runs) : runs[n].old <=> n > k
            /\ expired \/ k <= LeaseFires
      BY <1>2 DEF NearLease
    <2>2. /\ k + 1 < Len(list) /\ Complete(list)
          /\ \A n \in 1..Len(list) : list[n].old <=> n > k + 1
      BY <2>1, NearIsInView
    <2>3. Readable(list) /\ ~Lists(list, "rejected")
      BY ClaimedLists DEF InService, Readable
    <2>4. ASSUME expired, Quiet(list) PROVE k + 2 < Window
      <3> HIDE DEF list
      <3>1. Matched(list) # {} /\ ~Settles(list)
        BY <1>1, <1>2, <2>2, <2>3, <2>4 DEF Quiet
      <3>2. PICK m, n \in Matched(list) : m # n
        BY <2>3, <3>1, AloneSettles DEF InService
      <3>3. m \in 1..Len(list) /\ n \in 1..Len(list) /\ list[m].old /\ list[n].old
        <4>1. UnderIsOld(list)
          BY ClaimedUnder DEF list
        <4>2. QED BY <1>1, <3>2, <4>1 DEF Matched, UnderIsOld, Under, IsWindow
      <3>4. QED BY <1>1, <2>1, <2>2, <3>2, <3>3, WindowAssumption DEF IsWindow
    <2>5. CASE expired /\ Quiet(list)
      <3>1. runs' = list /\ expired'
        BY <2>5 DEF Quiet
      <3> HIDE DEF list
      <3>2. k + 1 \in Nat /\ (k + 1) + 1 < Window
        BY <2>1, <2>4, <2>5, WindowAssumption
      <3>3. QED BY <2>2, <3>1, <3>2 DEF NearLease
    <2>6. CASE expired /\ ~Quiet(list)
      <3>1. ~held' \/ runs' = Started(list)
        BY <1>2, <2>6 DEF Fire, Import, GiveBack, TakeLease
      <3> HIDE DEF list
      <3>2. QED BY <1>1, <3>1, StartedIsNear DEF NearLease
    <2>7. CASE ~expired
      <3>1. Since < LeaseFires /\ Since = k
        BY <1>2, <2>1, <2>7, SinceIs DEF Fire
      <3>2. k + 1 \in Nat /\ k + 1 <= LeaseFires /\ (k + 1) + 1 < Window
        BY <2>1, <3>1, WindowAssumption
      <3>3. ~held' \/ runs' = list
        BY <1>2, <2>7 DEF Fire, Quiet, Import, GiveBack, TakeLease
      <3> HIDE DEF list
      <3>4. QED BY <2>2, <3>2, <3>3 DEF NearLease
    <2>8. QED BY <2>5, <2>6, <2>7
  <1>3. CASE ~held
    <2>1. ~held' \/ runs' = Started(list)
      BY <1>3 DEF Fire, Quiet, Import, GiveBack, TakeLease
    <2> HIDE DEF list
    <2>2. QED BY <1>1, <2>1, StartedIsNear DEF NearLease
  <1>4. QED BY <1>2, <1>3

\* Other steps take nothing out of the window.
LEMMA NearStep ==
  ASSUME TypeOK, NearLease, UnderIsOld(runs), InService, [Next]_vars
  PROVE  NearLease'
  <1>1. CASE Fire
    BY <1>1, FireInService
  <1>2. ASSUME NEW n \in DOMAIN runs, Finish(n) PROVE NearLease'
    BY <1>2, FinishIs DEF NearLease, Finish
  <1>3. CASE Supersede
    BY <1>3 DEF Supersede, NearLease
  <1>4. CASE UNCHANGED <<runs, held>> /\ (expired => expired')
    BY <1>4 DEF NearLease
  <1>5. QED BY <1>1, <1>2, <1>3, <1>4 DEF Next, Expire, Toggle, Observe, vars

\* As long as the job stays in service, the next fire still sees the run that took
\* the lease: a lease gives up, or is answered, before the window moves past it,
\* also when several deliveries of one packet block it for a while.
THEOREM ServiceKeepsLeases == Spec => LeaseStaysInView
  <1>1. Init => NearLease /\ UnderIsOld(runs)
    BY DEF Init, NearLease, UnderIsOld
  <1>2. TypeOK /\ NearLease => (held => InView)
    <2> SUFFICES ASSUME TypeOK, NearLease, held PROVE InView
      OBVIOUS
    <2>1. PICK k \in Nat :
            /\ k < Len(runs) /\ k + 1 < Window
            /\ \A n \in 1..Len(runs) : runs[n].old <=> n > k
      BY DEF NearLease
    <2>2. /\ Len(Claimed(runs)) > k + 1 /\ IsWindow(Claimed(runs))
          /\ \A n \in 1..Len(Claimed(runs)) : Claimed(runs)[n].old <=> n > k + 1
      BY <2>1, NearIsInView, WindowHere
    <2>3. Len(Claimed(runs)) \in DOMAIN Claimed(runs) /\ Claimed(runs)[Len(Claimed(runs))].old
      BY <2>2 DEF IsWindow
    <2>4. QED BY <2>3 DEF InView
  <1>3. TypeOK /\ UnderIsOld(runs) /\ [Next]_vars => UnderIsOld(runs)'
    BY UnderStep
  <1>4. QED BY <1>1, <1>2, <1>3, NearStep, WindowIsTyped, PTL DEF Spec, LeaseStaysInView

=============================================================================
