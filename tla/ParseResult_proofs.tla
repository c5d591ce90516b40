-------------------------- MODULE ParseResult_proofs --------------------------
(***************************************************************************)
(* Theorems of ParseResult, for any appendices, candidates, requests,      *)
(* parses, choices and removals, and any faults.                           *)
(***************************************************************************)
EXTENDS ParseResult, TLAPS

-----------------------------------------------------------------------------
(* What the result knows of the folder.                                    *)

LEMMA InTracked ==
  ASSUME NEW c, NEW a \in Appendices, NEW k
  PROVE  /\ <<a, k>> \in ItemIds(c) <=> Items(c)[a] = k /\ k # 0
         /\ <<a, k>> \in Tracked(c) <=>
               (Items(c)[a] = k /\ k # 0) \/ <<a, k>> \in Pending(c)
         /\ <<a, k>> \in InFolder <=> lib[a] = k /\ k # 0
  BY DEF ItemIds, Tracked, InFolder

\* Every file of the folder is among those a result knows of.
Knows(c) == \A a \in Appendices : lib[a] # 0 => <<a, lib[a]>> \in Tracked(c)

LEMMA KnowsIs == ASSUME NEW c PROVE Knows(c) <=> InFolder \subseteq Tracked(c)
  BY DEF Knows, InFolder

LEMMA RefreshedIs ==
  ASSUME NEW c \in Results, file \in Results
  PROVE  /\ Refreshed(c) \in Results /\ Refreshed(c).status = c.status
         /\ Refreshed(c).sync = IF c.sync = NoSync THEN file.sync ELSE c.sync
         /\ \A a \in Appendices :
               c.chosen[a] # "unset" => Refreshed(c).chosen[a] = c.chosen[a]
<1> DEFINE chosen == [a \in Appendices |->
                        CASE c.chosen[a] # "unset" -> c.chosen[a]
                          [] c.chosen[a] = "unset" /\ file.chosen[a] # "unset" -> file.chosen[a]
                          [] OTHER -> "yes"]
           sync   == IF c.sync = NoSync THEN file.sync ELSE c.sync
<1> DEFINE d == [c EXCEPT !.chosen = chosen, !.sync = sync, !.fields = file.fields]
<1>1. Refreshed(c) = d
  BY Zenon DEF Refreshed
<1>2. chosen \in [Appendices -> Choices] /\ sync \in Syncs \cup {NoSync}
  BY DEF Results, Choices
<1>3. c.status \in {"idle", "completed"} /\ file.fields \in SUBSET Candidates
  BY DEF Results
<1>4. \A a \in Appendices : c.chosen[a] # "unset" => chosen[a] = c.chosen[a]
  OBVIOUS
<1>5. d \in Results /\ d.status = c.status /\ d.chosen = chosen /\ d.sync = sync
  <2> HIDE DEF chosen, sync
  <2> QED
    BY <1>2, <1>3 DEF Results
<1> QED
  BY <1>1, <1>4, <1>5

\* What the calls know of the folder does not depend on the rest of the result.
LEMMA SameSync ==
  ASSUME NEW c, NEW d, c.sync = d.sync
  PROVE  /\ Items(c) = Items(d) /\ Pending(c) = Pending(d)
         /\ Tracked(c) = Tracked(d)
  BY DEF Items, Pending, Tracked, ItemIds

LEMMA RefreshKnows ==
  ASSUME NEW c \in Results, file \in Results, Knows(c)
  PROVE  Knows(Refreshed(c))
<1>1. CASE c.sync = NoSync
  BY <1>1, InTracked DEF Knows, Items, Pending, NoFiles
<1>2. CASE c.sync # NoSync
  BY <1>2, RefreshedIs, SameSync DEF Knows
<1> QED
  BY <1>1, <1>2

LEMMA BlankIs ==
  ASSUME NEW status \in {"idle", "completed"}
  PROVE  /\ Blank(status) \in Results /\ Blank(status).status = status
         /\ Selected(Blank(status)) = {}
         /\ \A a \in Appendices : Blank(status).chosen[a] = "unset"
  BY DEF Blank, Results, Choices, Selected

-----------------------------------------------------------------------------
(* Types.                                                                  *)

LEMMA ResValues ==
  /\ NoFiles \in [Appendices -> Nat] /\ NoPlan \in Plans
  /\ Cleared \in Syncs /\ Blank("idle") \in Results
  /\ Blank("completed") \in Results
  BY BlankIs DEF NoFiles, NoPlan, Plans, Cleared, Syncs

LEMMA InitRes == Init => TypeOK
<1> SUFFICES ASSUME Init PROVE TypeOK
  OBVIOUS
<1>1. /\ copy \in [Requests -> Results] /\ plan \in [Requests -> Plans]
      /\ {lib, made} \subseteq [Appendices -> Nat]
      /\ {result, file, held} \subseteq Results
  BY ResValues DEF Init
<1>2. /\ pc \in [Requests -> Opening \cup Closed \cup {"idle"}]
      /\ told \in [Appendices -> Choices] /\ {calm, takesPart} \subseteq BOOLEAN
  BY DEF Init, Choices
<1> QED
  BY <1>1, <1>2 DEF Init, TypeOK

LEMMA ResFault ==
  ASSUME TypeOK, NEW r \in Requests,
         NoFault \/ \E kind \in FaultKinds : Fault(kind, r)
  PROVE  faults' \in Nat /\ met' \subseteq Requests
  BY DEF TypeOK, NoFault, Fault

LEMMA ItemsTyped ==
  ASSUME NEW c \in Results
  PROVE  /\ Items(c) \in [Appendices -> Nat]
         /\ Pending(c) \subseteq Materials
         /\ ItemIds(c) \subseteq Materials
<1>1. c.sync \in Syncs \cup {NoSync}
  BY DEF Results
<1>2. Items(c) \in [Appendices -> Nat] /\ Pending(c) \subseteq Materials
  BY <1>1, ResValues DEF Items, Pending, Syncs
<1> QED
  BY <1>2 DEF ItemIds, Materials

LEMMA PlanTyped ==
  ASSUME NEW c \in Results
  PROVE  PlanOf(c) \in Plans
<1>1. /\ Items(c) \in [Appendices -> Nat]
      /\ Stale(c) \subseteq Materials /\ Selected(c) \subseteq Appendices
  BY ItemsTyped DEF Stale, Selected
<1> DEFINE kept == {a \in Selected(c) : Items(c)[a] # 0 /\ Items(c)[a] = lib[a]}
           ids  == [a \in Appendices |-> IF a \in kept THEN Items(c)[a] ELSE 0]
<1>2. ids \in [Appendices -> Nat]
  BY <1>1
<1>3. PlanOf(c) =
         [upload |-> Selected(c) \ kept, stale |-> Stale(c), ids |-> ids]
  BY DEF PlanOf
<1> HIDE DEF kept, ids
<1> QED
  BY <1>1, <1>2, <1>3 DEF Plans

\* The two ends of a request.
LEMMA EndTyped ==
  ASSUME TypeOK, NEW r \in Requests, NEW c \in Results,
         NEW from, NEW answer \in Closed,
         Fail(r, from, c) \/ Succeed(r, from, answer, c),
         faults' \in Nat, met' \subseteq Requests,
         UNCHANGED <<lib, made, found, worker, held, told, calm, parses, choices,
                     removals>>
  PROVE  TypeOK'
<1>1. /\ pc' \in [Requests -> Opening \cup Closed \cup {"idle"}]
      /\ result' = c /\ file' \in {c, file} /\ takesPart' \in BOOLEAN
  BY DEF Fail, Succeed, Go, Closed, TypeOK
<1>2. copy' \in [Requests -> Results] /\ plan' \in [Requests -> Plans]
  BY ResValues DEF Fail, Succeed, Drop, TypeOK
<1> QED
  BY <1>1, <1>2 DEF TypeOK

LEMMA TypeOfRequest ==
  ASSUME ParseResultConstants, TypeOK, NEW r \in Requests,
         \/ Ask(r) \/ Prepare(r) \/ Index(r) \/ Upload(r)
         \/ Delete(r) \/ Finish(r)
  PROVE  TypeOK'
<1> USE DEF counters
<1>0. /\ copy[r] \in Results /\ plan[r] \in Plans
      /\ {"prepare", "index", "upload", "delete", "finish"} = Opening
      /\ {"synced", "partial", "skipped", "failed", "refused"} \subseteq Closed
      /\ {"move", "read", "upload", "delete"} \subseteq FaultKinds
      /\ lib \in [Appendices -> Nat] /\ made \in [Appendices -> Nat]
      /\ pc \in [Requests -> Opening \cup Closed \cup {"idle"}]
  BY DEF TypeOK, Opening, Closed, FaultKinds
<1>1. CASE Ask(r)
  BY <1>0, <1>1 DEF Ask, Go, NoFault, TypeOK
<1>2. CASE Prepare(r)
  <2>1. /\ pc' \in [Requests -> Opening \cup Closed \cup {"idle"}]
        /\ faults' \in Nat /\ met' \subseteq Requests
    BY <1>0, <1>2, ResFault DEF Prepare, Go
  <2>2. copy' \in [Requests -> Results] /\ plan' \in [Requests -> Plans]
    BY <1>2, ResValues DEF Prepare, Drop, TypeOK
  <2> QED
    BY <1>2, <2>1, <2>2 DEF Prepare, TypeOK
<1>3. CASE Index(r)
  <2>1. faults' \in Nat /\ met' \subseteq Requests
    BY <1>0, <1>3, ResFault DEF Index
  <2>2. CASE Fail(r, "index", copy[r])
    BY <1>0, <1>3, <2>1, <2>2, EndTyped DEF Index
  <2>3. CASE Succeed(r, "index", "skipped", [copy[r] EXCEPT !.sync = Cleared])
    <3>1. [copy[r] EXCEPT !.sync = Cleared] \in Results
      BY <1>0, ResValues DEF Results
    <3> QED
      BY <1>0, <1>3, <2>1, <2>3, <3>1, EndTyped DEF Index
  <2>4. CASE Go(r, "index", "upload") /\ plan' = [plan EXCEPT ![r] = PlanOf(copy[r])]
             /\ UNCHANGED <<result, file, takesPart, copy>>
    BY <1>0, <1>3, <2>1, <2>4, PlanTyped DEF Index, Go, TypeOK
  <2> QED
    BY <1>3, <2>2, <2>3, <2>4 DEF Index
<1>4. CASE Upload(r)
  <2>1. faults' \in Nat /\ met' \subseteq Requests
    BY <1>0, <1>4, ResFault DEF Upload
  <2>2. CASE Fail(r, "upload", copy[r]) /\ UNCHANGED <<lib, made>>
    BY <1>0, <1>4, <2>1, <2>2, EndTyped DEF Upload
  <2>3. CASE Go(r, "upload", "delete")
    <3> DEFINE new == {a \in plan[r].upload : lib[a] = 0}
               is  == [a \in Appendices |-> IF a \in new THEN made[a] + 1 ELSE lib[a]]
               ids == [a \in Appendices |->
                         IF a \in plan[r].upload THEN is[a] ELSE plan[r].ids[a]]
    <3>1. /\ lib' = is
          /\ made' = [a \in Appendices |-> IF a \in new THEN made[a] + 1 ELSE made[a]]
          /\ plan' = [plan EXCEPT ![r].ids = ids]
          /\ UNCHANGED <<result, file, takesPart, copy>>
      <4>1. ~ Fail(r, "upload", copy[r])
        BY <1>0, <2>3 DEF Fail, Go
      <4> QED
        BY <1>4, <4>1 DEF Upload
    <3>2. is \in [Appendices -> Nat] /\ made' \in [Appendices -> Nat]
      BY <1>0, <3>1
    <3>3. ids \in [Appendices -> Nat]
      BY <1>0, <3>2 DEF Plans
    <3> HIDE DEF new, is, ids
    <3>4. plan' \in [Requests -> Plans]
      BY <1>0, <3>1, <3>3 DEF Plans, TypeOK
    <3> QED
      BY <1>0, <1>4, <2>1, <2>3, <3>1, <3>2, <3>4 DEF Upload, Go, TypeOK
  <2> QED
    BY <1>4, <2>2, <2>3 DEF Upload
<1>5. CASE Delete(r)
  <2>1. faults' \in Nat /\ met' \subseteq Requests
    BY <1>0, <1>5, ResFault DEF Delete
  <2>2. PICK failed \in SUBSET plan[r].stale :
          /\ lib' = [a \in Appendices |->
                 IF <<a, lib[a]>> \in plan[r].stale \ failed THEN 0 ELSE lib[a]]
          /\ copy' = [copy EXCEPT ![r].sync =
                 [items |-> [a \in Appendices |->
                                IF a \in Selected(copy[r]) THEN plan[r].ids[a] ELSE 0],
                  pending |-> failed]]
    BY <1>5 DEF Delete
  <2> DEFINE items == [a \in Appendices |->
                         IF a \in Selected(copy[r]) THEN plan[r].ids[a] ELSE 0]
  <2>3. items \in [Appendices -> Nat] /\ failed \subseteq Materials
    BY <1>0 DEF Plans
  <2>4. lib' \in [Appendices -> Nat]
    BY <1>0, <2>2
  <2>5. copy' = [copy EXCEPT ![r] = [copy[r] EXCEPT !.sync =
                                        [items |-> items, pending |-> failed]]]
    BY <2>2
  <2> HIDE DEF items
  <2>6. copy' \in [Requests -> Results]
    <3>1. [items |-> items, pending |-> failed] \in Syncs
      BY <2>3 DEF Syncs
    <3> QED
      BY <1>0, <2>5, <3>1 DEF Results, TypeOK
  <2> QED
    BY <1>0, <1>5, <2>1, <2>4, <2>6 DEF Delete, Go, TypeOK
<1>6. CASE Finish(r)
  <2>1. faults' \in Nat /\ met' \subseteq Requests
    BY <1>0, <1>6, ResFault DEF Finish
  <2>2. \E answer \in Closed :
           \/ Fail(r, "finish", copy[r]) \/ Succeed(r, "finish", answer, copy[r])
    BY <1>0, <1>6 DEF Finish
  <2> QED
    BY <1>0, <1>6, <2>1, <2>2, EndTyped DEF Finish
<1> QED
  BY <1>1, <1>2, <1>3, <1>4, <1>5, <1>6

LEMMA TypeOfRest ==
  ASSUME ParseResultConstants, TypeOK,
         \/ Complete \/ Refresh \/ WorkerRefresh \/ WorkerPromote
         \/ \E answer \in {"yes", "no"} :
               \/ \E a \in Appendices : Choose({a}, answer)
               \/ Choose(Appendices, answer)
         \/ \E c \in Candidates : Confirm(c) \/ Ignore(c)
         \/ \E a \in Appendices : Remove(a)
         \/ Restart
         \/ UNCHANGED vars
  PROVE  TypeOK'
<1> USE DEF counters, NoFault
<1>0. /\ result \in Results /\ file \in Results /\ held \in Results
      /\ lib \in [Appendices -> Nat] /\ made \in [Appendices -> Nat]
  BY DEF TypeOK
<1>1. CASE Complete
  BY <1>1, ResValues DEF Complete, TypeOK, Choices
<1>2. CASE Refresh \/ WorkerRefresh \/ WorkerPromote
  <2>1. Refreshed(result) \in Results
    BY <1>0, RefreshedIs
  <2> QED
    BY <1>0, <1>2, <2>1, ResValues
    DEF Refresh, WorkerRefresh, WorkerPromote, TypeOK
<1>3. ASSUME NEW answer \in {"yes", "no"}, NEW some \in SUBSET Appendices,
             Choose(some, answer)
      PROVE  TypeOK'
  <2>1. result' \in Results
    <3> DEFINE chosen == [a \in Appendices |->
                            IF a \in some THEN answer ELSE result.chosen[a]]
    <3>1. result' = [result EXCEPT !.chosen = chosen]
      BY <1>3 DEF Choose
    <3>2. chosen \in [Appendices -> Choices]
      BY <1>0 DEF Results, Choices
    <3> HIDE DEF chosen
    <3> QED
      BY <1>0, <3>1, <3>2 DEF Results
  <2>2. told' \in [Appendices -> Choices]
    BY <1>3 DEF Choose, TypeOK, Choices
  <2>3. choices' \in Nat
    BY <1>3 DEF Choose, TypeOK
  <2> QED
    BY <1>3, <2>1, <2>2, <2>3 DEF Choose, TypeOK
<1>4. ASSUME NEW c \in Candidates, Confirm(c) \/ Ignore(c)
      PROVE  TypeOK'
  <2>1. result' \in Results
    <3>1. CASE result' = result
      BY <1>0, <3>1
    <3>2. CASE result' = [result EXCEPT !.fields = result.fields \cup {c}]
      BY <1>0, <3>2 DEF Results
    <3> QED
      BY <1>4, <3>1, <3>2 DEF Confirm, Ignore
  <2>2. found' \in [Candidates -> {"recognised", "confirmed", "ignored"}]
    BY <1>4 DEF Confirm, Ignore, TypeOK
  <2>3. faults' \in Nat /\ met' = met
    BY <1>4 DEF Confirm, Ignore, TypeOK
  <2> QED
    BY <1>4, <2>1, <2>2, <2>3 DEF Confirm, Ignore, TypeOK
<1>5. ASSUME NEW a \in Appendices, Remove(a) PROVE TypeOK'
  BY <1>0, <1>5 DEF Remove, TypeOK
<1>6. CASE Restart
  <2>1. copy' \in [Requests -> Results] /\ plan' \in [Requests -> Plans]
    BY <1>6, ResValues DEF Restart
  <2>2. pc' \in [Requests -> Opening \cup Closed \cup {"idle"}]
    BY <1>6 DEF Restart, TypeOK, Closed
  <2> QED
    <3>1. met' \subseteq Requests /\ faults' \in Nat /\ calm' \in BOOLEAN
      <4>1. met \subseteq Requests /\ faults \in Nat
        BY DEF TypeOK
      <4>2. Open \subseteq Requests
        BY DEF Open
      <4> QED
        <5>1. faults' = faults + 1 /\ met' = met \cup Open /\ calm' = FALSE
          BY <1>6 DEF Restart
        <5>2. calm' \in BOOLEAN
          BY <5>1, Zenon
        <5>3. met' \subseteq Requests /\ faults' \in Nat
          BY <4>1, <4>2, <5>1
        <5> QED
          BY <5>2, <5>3
    <3> QED
      BY <1>6, <2>1, <2>2, <3>1 DEF Restart, TypeOK
<1>7. CASE UNCHANGED vars
  BY <1>7 DEF vars, TypeOK
<1>8. \A a \in Appendices : {a} \in SUBSET Appendices
  OBVIOUS
<1> QED
  BY <1>1, <1>2, <1>3, <1>4, <1>5, <1>6, <1>7, <1>8

LEMMA ResTypeStep ==
  ASSUME ParseResultConstants, TypeOK, [Next]_vars
  PROVE  TypeOK'
  BY TypeOfRequest, TypeOfRest DEF Next

-----------------------------------------------------------------------------
(* Choices.                                                                *)

\* Every copy that can still be written back has the choices that users were told
\* are kept.
KeptInv ==
    \A a \in Appendices : told[a] # "unset" =>
        /\ result.chosen[a] = told[a]
        /\ \A r \in Open : copy[r].chosen[a] = told[a]
        /\ worker = "refreshed" => held.chosen[a] = told[a]

\* A request goes on with its copy, or ends and writes it back.
LEMMA RequestWrites ==
  ASSUME TypeOK, NEW r \in Requests,
         \/ Prepare(r) \/ Index(r) \/ Upload(r) \/ Delete(r)
         \/ Finish(r)
  PROVE  /\ r \in Open /\ Open' \subseteq Open
         /\ \A s \in Open' : copy'[s].chosen = copy[s].chosen
         /\ result' = result \/ result'.chosen = copy[r].chosen
         /\ UNCHANGED <<told, worker, held>>
<1>0. /\ pc \in [Requests -> Opening \cup Closed \cup {"idle"}]
      /\ copy \in [Requests -> Results] /\ copy[r] \in Results
      /\ Opening = {"prepare", "index", "upload", "delete", "finish"}
      /\ Opening \cap Closed = {}
  BY DEF TypeOK, Opening, Closed
\* An end.
<1>1. ASSUME NEW from \in Opening, NEW answer \in Closed, Go(r, from, answer),
             Drop(r)
      PROVE  /\ r \in Open /\ Open' \subseteq Open \ {r}
             /\ \A s \in Open' : copy'[s].chosen = copy[s].chosen
  BY <1>0, <1>1 DEF Go, Drop, Open
<1>2. ASSUME NEW from \in Opening, Fail(r, from, copy[r]),
             UNCHANGED <<told, worker, held>>
      PROVE  /\ r \in Open /\ Open' \subseteq Open
             /\ \A s \in Open' : copy'[s].chosen = copy[s].chosen
             /\ result' = result \/ result'.chosen = copy[r].chosen
  BY <1>0, <1>1, <1>2 DEF Fail, Closed
<1>3. ASSUME NEW from \in Opening, NEW answer \in Closed, NEW c,
             Succeed(r, from, answer, c), c.chosen = copy[r].chosen
      PROVE  /\ r \in Open /\ Open' \subseteq Open
             /\ \A s \in Open' : copy'[s].chosen = copy[s].chosen
             /\ result' = result \/ result'.chosen = copy[r].chosen
  BY <1>0, <1>1, <1>3 DEF Succeed
\* No end yet.
<1>4. ASSUME NEW from \in Opening, NEW to \in Opening, Go(r, from, to)
      PROVE  r \in Open /\ Open' \subseteq Open
  BY <1>0, <1>4 DEF Go, Open
<1>5. CASE Prepare(r)
  <2>1. CASE Go(r, "prepare", "index") /\ UNCHANGED <<copy, plan>>
    BY <1>0, <1>4, <1>5, <2>1 DEF Prepare
  <2>2. CASE Go(r, "prepare", "refused") /\ Drop(r)
    BY <1>0, <1>1, <1>5, <2>2 DEF Prepare, Closed
  <2> QED
    BY <1>5, <2>1, <2>2 DEF Prepare
<1>6. CASE Index(r)
  <2>1. [copy[r] EXCEPT !.sync = Cleared].chosen = copy[r].chosen
    BY <1>0 DEF Results
  <2>2. CASE Fail(r, "index", copy[r])
    BY <1>0, <1>2, <1>6, <2>2 DEF Index
  <2>3. CASE Succeed(r, "index", "skipped", [copy[r] EXCEPT !.sync = Cleared])
    BY <1>0, <1>3, <1>6, <2>1, <2>3 DEF Index, Closed
  <2>4. CASE Go(r, "index", "upload") /\ UNCHANGED <<result, copy>>
    BY <1>0, <1>4, <1>6, <2>4 DEF Index
  <2> QED
    BY <1>6, <2>2, <2>3, <2>4 DEF Index
<1>7. CASE Upload(r)
  <2>1. CASE Fail(r, "upload", copy[r])
    BY <1>0, <1>2, <1>7, <2>1 DEF Upload
  <2>2. CASE Go(r, "upload", "delete") /\ UNCHANGED <<result, copy>>
    BY <1>0, <1>4, <1>7, <2>2 DEF Upload
  <2> QED
    BY <1>7, <2>1, <2>2 DEF Upload
<1>8. CASE Delete(r)
  <2>1. r \in Open /\ Open' \subseteq Open
    BY <1>0, <1>4, <1>8 DEF Delete
  <2>2. \A s \in Requests : copy'[s].chosen = copy[s].chosen
    <3>1. PICK x : copy' = [copy EXCEPT ![r].sync = x]
      BY <1>8 DEF Delete
    <3> QED
      BY <1>0, <3>1 DEF Results
  <2> QED
    BY <1>8, <2>1, <2>2 DEF Delete, Open
<1>9. CASE Finish(r)
  <2>1. CASE Fail(r, "finish", copy[r])
    BY <1>0, <1>2, <1>9, <2>1 DEF Finish
  <2>2. CASE \E answer \in {"synced", "partial"} :
                Succeed(r, "finish", answer, copy[r])
    BY <1>0, <1>3, <1>9, <2>2 DEF Finish, Closed
  <2> QED
    BY <1>9, <2>1, <2>2 DEF Finish
<1> QED
  BY <1>5, <1>6, <1>7, <1>8, <1>9

LEMMA KeptStep ==
  ASSUME ParseResultConstants, TypeOK, KeptInv, [Next]_vars
  PROVE  KeptInv'
<1> USE DEF counters
<1>0. /\ result \in Results /\ file \in Results
      /\ pc \in [Requests -> Opening \cup Closed \cup {"idle"}]
      /\ copy \in [Requests -> Results]
      /\ told \in [Appendices -> Choices]
  BY DEF TypeOK
<1>1. CASE Complete
  BY <1>1 DEF Complete, KeptInv
<1>2. CASE Refresh \/ WorkerRefresh
  <2>1. \A a \in Appendices :
           result.chosen[a] # "unset" => result'.chosen[a] = result.chosen[a]
    BY <1>0, <1>2, RefreshedIs DEF Refresh, WorkerRefresh
  <2>2. UNCHANGED <<told, pc, copy>>
    BY <1>2 DEF Refresh, WorkerRefresh
  <2>3. held' = result' \/ UNCHANGED <<held, worker>>
    BY <1>2 DEF Refresh, WorkerRefresh
  <2> QED
    BY <2>1, <2>2, <2>3 DEF KeptInv, Open
<1>3. CASE WorkerPromote
  BY <1>3 DEF WorkerPromote, KeptInv, Open
<1>4. ASSUME NEW answer \in {"yes", "no"}, NEW some \in SUBSET Appendices,
             Choose(some, answer)
      PROVE  KeptInv'
  <2>1. \A a \in Appendices :
           result'.chosen[a] = IF a \in some THEN answer ELSE result.chosen[a]
    BY <1>0, <1>4 DEF Choose, Results
  <2>2. \A a \in Appendices :
           told'[a] = IF a \in some THEN IF SomeHold THEN "unset" ELSE answer
                                    ELSE told[a]
    BY <1>4 DEF Choose
  <2>3. UNCHANGED <<pc, copy, worker, held>>
    BY <1>4 DEF Choose
  <2>4. SUFFICES ASSUME NEW a \in Appendices, told'[a] # "unset"
        PROVE  /\ result'.chosen[a] = told'[a]
               /\ \A r \in Open : copy[r].chosen[a] = told'[a]
               /\ worker = "refreshed" => held.chosen[a] = told'[a]
    BY <2>3 DEF KeptInv, Open
  <2>5. CASE a \in some
    BY <2>1, <2>2, <2>4, <2>5 DEF SomeHold
  <2>6. CASE a \notin some
    BY <2>1, <2>2, <2>4, <2>6 DEF KeptInv
  <2> QED
    BY <2>5, <2>6
<1>5. ASSUME NEW c \in Candidates, Confirm(c) \/ Ignore(c) PROVE KeptInv'
  <2>1. result'.chosen = result.chosen
    BY <1>0, <1>5 DEF Confirm, Ignore, Results
  <2> QED
    BY <1>5, <2>1 DEF Confirm, Ignore, KeptInv, Open
<1>6. ASSUME NEW a \in Appendices, Remove(a) PROVE KeptInv'
  BY <1>6 DEF Remove, KeptInv, Open
<1>7. ASSUME NEW r \in Requests, Ask(r) PROVE KeptInv'
  <2>1. /\ copy'[r] = result /\ UNCHANGED <<result, told, worker, held>>
        /\ \A s \in Requests \ {r} : copy'[s] = copy[s] /\ pc'[s] = pc[s]
    BY <1>0, <1>7 DEF Ask, Go
  <2>2. Open' \subseteq Open \cup {r}
    BY <2>1 DEF Open
  <2> QED
    BY <2>1, <2>2 DEF KeptInv, Open
<1>8. ASSUME NEW r \in Requests,
             \/ Prepare(r) \/ Index(r) \/ Upload(r) \/ Delete(r)
             \/ Finish(r)
      PROVE  KeptInv'
  <2>1. /\ r \in Open /\ Open' \subseteq Open
        /\ \A s \in Open' : copy'[s].chosen = copy[s].chosen
        /\ result' = result \/ result'.chosen = copy[r].chosen
        /\ UNCHANGED <<told, worker, held>>
    BY <1>8, RequestWrites
  <2> QED
    BY <2>1 DEF KeptInv
<1>9. CASE Restart
  <2>1. Open' = {} /\ UNCHANGED <<result, told, worker, held>>
    BY <1>9 DEF Restart, Open, Opening
  <2> QED
    BY <2>1 DEF KeptInv
<1>10. CASE UNCHANGED vars
  BY <1>10 DEF vars, KeptInv, Open
<1>11. \A a \in Appendices : {a} \in SUBSET Appendices
  OBVIOUS
<1> QED
  BY <1>1, <1>2, <1>3, <1>4, <1>5, <1>6, <1>7, <1>8, <1>9, <1>10, <1>11 DEF Next

\* A choice of appendices that was acknowledged while nobody worked on a copy of
\* the result stays as it was made, through refreshes, promotions, confirmations
\* and participation requests, however many overlap and however they fail
\* (_merge_technical_appendix_runtime_state, BidProjectService.update).
THEOREM ChoicesAreKept ==
  ASSUME ParseResultConstants
  PROVE  Spec => [](TypeOK /\ ChoiceKept)
<1>1. Init => KeptInv
  BY DEF Init, KeptInv
<1>2. KeptInv => ChoiceKept
  BY DEF KeptInv, ChoiceKept
<1> QED
  BY <1>1, <1>2, InitRes, ResTypeStep, KeptStep, PTL DEF Spec

-----------------------------------------------------------------------------
(* The folder.                                                             *)

\* Before the project is parsed nothing is chosen, and nothing is uploaded.
Unparsed ==
    parses = 0 =>
        /\ \A a \in Appendices : lib[a] = 0
        /\ result.status # "completed" /\ Selected(result) = {} /\ worker = "idle"
        /\ \A r \in Open :
              /\ pc[r] \in {"prepare", "index"}
              /\ copy[r].status # "completed" /\ Selected(copy[r]) = {}

LEMMA UnparsedStep ==
  ASSUME ParseResultConstants, TypeOK, Unparsed, [Next]_vars
  PROVE  Unparsed'
<1> USE DEF counters
<1>0. /\ result \in Results /\ lib \in [Appendices -> Nat] /\ parses \in Nat
      /\ pc \in [Requests -> Opening \cup Closed \cup {"idle"}]
      /\ copy \in [Requests -> Results]
      /\ Opening = {"prepare", "index", "upload", "delete", "finish"}
      /\ Opening \cap Closed = {}
  BY DEF TypeOK, Opening, Closed
<1>1. CASE Complete
  BY <1>0, <1>1 DEF Complete, Unparsed
<1>2. SUFFICES ASSUME parses = 0, parses' = parses PROVE Unparsed'
  <2>1. ~ Complete => parses' = parses
    BY DEF Next, vars, Refresh, WorkerRefresh, WorkerPromote,
           Choose, Confirm, Ignore, Remove, Ask, Prepare,
           Index, Upload, Delete, Finish, Restart
  <2> QED
    BY <1>1, <1>2, <2>1 DEF Unparsed
<1>3. /\ \A a \in Appendices : lib[a] = 0
      /\ result.status # "completed" /\ Selected(result) = {} /\ worker = "idle"
      /\ \A r \in Open :
            /\ pc[r] \in {"prepare", "index"}
            /\ copy[r].status # "completed" /\ Selected(copy[r]) = {}
  BY <1>2 DEF Unparsed
<1>4. CASE Refresh \/ WorkerRefresh \/ WorkerPromote
  BY <1>3, <1>4 DEF Refresh, WorkerRefresh, WorkerPromote
<1>5. ASSUME NEW answer, NEW some, Choose(some, answer) PROVE Unparsed'
  BY <1>3, <1>5 DEF Choose
<1>6. ASSUME NEW c \in Candidates, Confirm(c) \/ Ignore(c) PROVE Unparsed'
  <2>1. result'.status = result.status /\ Selected(result') = Selected(result)
    <3>1. result'.status = result.status /\ result'.chosen = result.chosen
      BY <1>0, <1>6 DEF Confirm, Ignore, Results
    <3> QED
      BY <3>1 DEF Selected
  <2> QED
    BY <1>3, <1>6, <2>1
    DEF Confirm, Ignore, Unparsed, Open, Selected
<1>7. ASSUME NEW a \in Appendices, Remove(a) PROVE Unparsed'
  BY <1>3, <1>7 DEF Remove
<1>8. ASSUME NEW r \in Requests, Ask(r) PROVE Unparsed'
  <2>1. /\ copy'[r] = result /\ pc'[r] = "prepare" /\ UNCHANGED <<result, lib, worker>>
        /\ \A s \in Requests \ {r} : copy'[s] = copy[s] /\ pc'[s] = pc[s]
    BY <1>0, <1>8 DEF Ask, Go
  <2> QED
    BY <1>0, <1>3, <2>1 DEF Unparsed, Open, Selected
\* The result is as it was, or has what the copy of a request had chosen.
<1>9. ASSUME NEW r \in Open, NEW to \in Closed, Drop(r),
             pc' = [pc EXCEPT ![r] = to], UNCHANGED <<lib, worker>>,
             \/ result' = result
             \/ result'.status = copy[r].status /\ result'.chosen = copy[r].chosen
      PROVE  Unparsed'
  <2>1. Open' = Open \ {r}
    BY <1>0, <1>9 DEF Open
  <2>2. \A s \in Open' : pc'[s] = pc[s] /\ copy'[s] = copy[s]
    BY <1>0, <1>9, <2>1 DEF Open, Drop
  <2>3. result'.status # "completed" /\ Selected(result') = {}
    BY <1>3, <1>9 DEF Selected
  <2> QED
    BY <1>3, <1>9, <2>1, <2>2, <2>3 DEF Unparsed, Selected
<1>10. ASSUME NEW r \in Requests, Prepare(r) PROVE Unparsed'
  <2>1. r \in Open /\ pc[r] = "prepare"
    BY <1>0, <1>10 DEF Prepare, Go, Open
  <2>2. CASE Go(r, "prepare", "refused") /\ Drop(r)
    BY <1>9, <1>10, <2>1, <2>2 DEF Prepare, Go, Closed
  <2>3. CASE pc' = [pc EXCEPT ![r] = "index"] /\ UNCHANGED <<copy, plan>>
    BY <1>0, <1>3, <1>10, <2>1, <2>3 DEF Prepare, Unparsed, Open, Selected
  <2> QED
    BY <1>10, <2>2, <2>3 DEF Prepare, Go
<1>11. ASSUME NEW r \in Requests, Index(r) PROVE Unparsed'
  <2>1. /\ r \in Open /\ Selected(copy[r]) = {} /\ copy[r] \in Results
    BY <1>0, <1>3, <1>11
    DEF Index, Go, Fail, Succeed, Open
  <2>2. PlanOf(copy[r]).stale = {}
    <3>1. InFolder = {}
      BY <1>3 DEF InFolder
    <3>2. Stale(copy[r]) = {}
      BY <3>1 DEF Stale
    <3> QED
      BY <3>2 DEF PlanOf
  <2>3. CASE Fail(r, "index", copy[r])
    BY <1>9, <1>11, <2>1, <2>3 DEF Index, Fail, Go, Closed
  <2>4. CASE Succeed(r, "index", "skipped", [copy[r] EXCEPT !.sync = Cleared])
    <3>1. result'.status = copy[r].status /\ result'.chosen = copy[r].chosen
      BY <2>1, <2>4 DEF Succeed, Results
    <3> QED
      BY <1>9, <1>11, <2>1, <2>4, <3>1 DEF Index, Succeed, Go, Closed
  <2> QED
    BY <1>11, <2>1, <2>2, <2>3, <2>4 DEF Index
<1>12. ASSUME NEW r \in Requests, Upload(r) \/ Delete(r) \/ Finish(r)
       PROVE  Unparsed'
  BY <1>0, <1>3, <1>12
  DEF Upload, Delete, Finish, Go, Fail, Succeed, Open
<1>13. CASE Restart
  <2>1. Open' = {} /\ UNCHANGED <<result, lib, worker>>
    BY <1>0, <1>13 DEF Restart, Open, Closed
  <2> QED
    BY <1>3, <2>1 DEF Unparsed, Selected
<1>14. CASE UNCHANGED vars
  BY <1>3, <1>14 DEF vars, Unparsed, Open, Selected
<1> QED
  BY <1>1, <1>4, <1>5, <1>6, <1>7, <1>8, <1>10, <1>11, <1>12, <1>13, <1>14 DEF Next

\* What the plan of a request says of the files that the folder has: the chosen ones
\* that are kept, and the ones to delete.
PlannedFor(r) ==
    LET chosen == Selected(copy[r])
        sent   == IF pc[r] = "upload" THEN plan[r].upload ELSE {}
    IN  \A a \in Appendices \ sent :
          /\ lib[a] # 0 =>
                \/ a \in chosen /\ plan[r].ids[a] = lib[a]
                \/ pc[r] = "upload" /\ a \notin chosen /\ <<a, lib[a]>> \in plan[r].stale
                \/ pc[r] = "delete" /\ <<a, lib[a]>> \in plan[r].stale
          /\ a \in chosen => plan[r].ids[a] # 0

\* A request knows of every file, by its copy or by its plan; in the end its items are
\* the chosen appendices.
FolderOf(r) ==
    /\ pc[r] # "delete" => Knows(copy[r])
    /\ pc[r] \in {"upload", "delete"} => PlannedFor(r)
    /\ pc[r] = "upload" => plan[r].upload \subseteq Selected(copy[r])
    /\ pc[r] = "finish" =>
          \A a \in Appendices :
             Items(copy[r])[a] # 0 <=> a \in Selected(copy[r])

\* Nobody overlaps, and whoever holds the result knows of every file.
CalmInv ==
    calm =>
        /\ \A r, s \in Open : r = s
        /\ Open # {} => worker = "idle"
        /\ (\A r \in Open : pc[r] \in {"prepare", "index"}) => Knows(result)
        /\ worker = "refreshed" => Knows(held)
        /\ \A r \in Open : FolderOf(r)

\* The steps of a calm request.
LEMMA CalmPrepare ==
  ASSUME TypeOK, NEW r \in Open, Prepare(r), calm, CalmInv
  PROVE  CalmInv'
<1>0. /\ pc \in [Requests -> Opening \cup Closed \cup {"idle"}]
      /\ Opening = {"prepare", "index", "upload", "delete", "finish"}
      /\ Opening \cap Closed = {} /\ r \in Requests
  BY DEF TypeOK, Opening, Closed, Open
<1>1. /\ pc[r] = "prepare" /\ Open = {r} /\ Knows(result) /\ Knows(copy[r])
      /\ worker = "idle"
      /\ UNCHANGED <<result, file, lib, worker, held, calm>>
  BY <1>0 DEF Prepare, Go, CalmInv, FolderOf
<1>2. CASE pc' = [pc EXCEPT ![r] = "index"] /\ UNCHANGED <<copy, plan>>
  <2>1. Open' = {r} /\ pc'[r] = "index"
    BY <1>0, <1>1, <1>2 DEF Open
  <2> QED
    BY <1>1, <1>2, <2>1
    DEF CalmInv, FolderOf, Knows, Tracked, ItemIds, Items, Pending
<1>3. CASE pc' = [pc EXCEPT ![r] = "refused"]
  <2>1. Open' = {}
    BY <1>0, <1>1, <1>3 DEF Open, Closed
  <2> QED
    BY <1>1, <2>1
    DEF CalmInv, Knows, Tracked, ItemIds, Items, Pending
<1> QED
  BY <1>2, <1>3 DEF Prepare, Go

\* It ends, with a result that knows of every file.
LEMMA CalmEnd ==
  ASSUME TypeOK, NEW r \in Open, calm, CalmInv, NEW from, NEW to \in Closed,
         Go(r, from, to), Knows(result)', UNCHANGED <<worker, held, calm>>
  PROVE  CalmInv'
<1>1. Open = {r} /\ worker = "idle" /\ r \in Requests
  BY DEF CalmInv, Open
<1>2. Open' = {}
  BY <1>1 DEF TypeOK, Go, Open, Closed, Opening
<1> QED
  BY <1>1, <1>2 DEF CalmInv

LEMMA CalmIndex ==
  ASSUME ParseResultConstants, TypeOK, NEW r \in Open, Index(r), calm,
         CalmInv
  PROVE  /\ CalmInv'
         /\ pc'[r] # pc[r] /\ pc'[r] = "skipped" =>
               {a \in Appendices : lib[a] # 0} = Selected(copy[r])
<1> DEFINE c == copy[r]
<1>0. /\ pc \in [Requests -> Opening \cup Closed \cup {"idle"}]
      /\ Opening = {"prepare", "index", "upload", "delete", "finish"}
      /\ Opening \cap Closed = {} /\ {"skipped", "failed"} \subseteq Closed
      /\ r \in Requests /\ c \in Results /\ lib \in [Appendices -> Nat]
      /\ plan \in [Requests -> Plans]
  BY DEF TypeOK, Opening, Closed, Open
<1>1. /\ pc[r] = "index" /\ UNCHANGED <<lib, worker, held, calm>>
  BY DEF Index, Go, Fail, Succeed
<1>2. Open = {r} /\ Knows(c) /\ worker = "idle"
  BY <1>0, <1>1 DEF CalmInv, FolderOf
<1>3. CASE Fail(r, "index", c)
  <2>1. Knows(result)'
    BY <1>1, <1>2, <1>3
    DEF Fail, Knows, Tracked, ItemIds, Items, Pending
  <2>2. pc'[r] = "failed"
    BY <1>0, <1>3 DEF Fail, Go
  <2> QED
    BY <1>0, <1>1, <1>3, <2>1, <2>2, CalmEnd DEF Fail
\* The files that the folder has, by what becomes of them.
<1>4. ASSUME NEW a \in Appendices, lib[a] # 0
      PROVE  \/ <<a, lib[a]>> \in Stale(c)
             \/ a \in Selected(c) /\ Items(c)[a] = lib[a]
  <2>1. <<a, lib[a]>> \in InFolder
    BY <1>4, InTracked
  <2>2. CASE <<a, lib[a]>> \in Pending(c)
    BY <2>1, <2>2 DEF Stale
  <2>3. CASE <<a, lib[a]>> \in ItemIds(c)
    BY <2>1, <2>3, InTracked DEF Stale
  <2> QED
    BY <1>2, <1>4, <2>2, <2>3 DEF Knows, Tracked
<1>5. CASE Succeed(r, "index", "skipped", [c EXCEPT !.sync = Cleared])
           /\ Selected(c) = {} /\ PlanOf(c).stale = {}
  <2>1. Stale(c) = {}
    BY <1>5 DEF PlanOf
  <2>2. \A a \in Appendices : lib[a] = 0
    BY <1>4, <1>5, <2>1
  <2>3. Knows(result)'
    BY <1>1, <2>2 DEF Knows
  <2> QED
    BY <1>0, <1>1, <1>5, <2>2, <2>3, CalmEnd DEF Succeed
<1>6. CASE /\ Go(r, "index", "upload") /\ plan' = [plan EXCEPT ![r] = PlanOf(c)]
           /\ UNCHANGED <<result, copy>>
  <2>1. /\ pc'[r] = "upload" /\ Open' = {r} /\ copy'[r] = c
        /\ plan'[r] = PlanOf(c)
    BY <1>0, <1>2, <1>6 DEF Go, Open
  <2> DEFINE kept == {a \in Selected(c) :
                        Items(c)[a] # 0 /\ Items(c)[a] = lib[a]}
  <2>2. /\ plan'[r].upload = Selected(c) \ kept /\ plan'[r].stale = Stale(c)
        /\ \A a \in Appendices :
              plan'[r].ids[a] = IF a \in kept THEN Items(c)[a] ELSE 0
    BY <2>1 DEF PlanOf
  <2>3. ASSUME NEW a \in Appendices \ plan'[r].upload
        PROVE  /\ lib[a] # 0 =>
                     \/ a \in Selected(c) /\ plan'[r].ids[a] = lib[a]
                     \/ a \notin Selected(c) /\ <<a, lib[a]>> \in plan'[r].stale
               /\ a \in Selected(c) => plan'[r].ids[a] # 0
    <3>1. CASE a \in Selected(c)
      BY <2>2, <2>3, <3>1
    <3>2. CASE a \notin Selected(c)
      BY <1>4, <2>2, <3>2
    <3> QED
      BY <3>1, <3>2
  <2>4. PlannedFor(r)'
    BY <1>1, <2>1, <2>3 DEF PlannedFor, Selected
  <2>5. FolderOf(r)'
    BY <1>1, <1>2, <2>1, <2>2, <2>4
    DEF FolderOf, Knows, Selected, Tracked, ItemIds, Items, Pending
  <2> QED
    BY <1>1, <1>2, <2>1, <2>5 DEF CalmInv
<1> QED
  BY <1>3, <1>5, <1>6 DEF Index

LEMMA CalmUpload ==
  ASSUME ParseResultConstants, TypeOK, NEW r \in Open, Upload(r), calm,
         CalmInv
  PROVE  CalmInv'
<1>0. /\ pc \in [Requests -> Opening \cup Closed \cup {"idle"}]
      /\ Opening = {"prepare", "index", "upload", "delete", "finish"}
      /\ Opening \cap Closed = {} /\ "failed" \in Closed
      /\ r \in Requests /\ lib \in [Appendices -> Nat] /\ made \in [Appendices -> Nat]
      /\ plan \in [Requests -> Plans] /\ plan[r] \in Plans
  BY DEF TypeOK, Opening, Closed, Open
<1>1. pc[r] = "upload" /\ UNCHANGED <<worker, held, calm>>
  BY DEF Upload, Go, Fail
<1>2. /\ Open = {r} /\ worker = "idle" /\ Knows(copy[r]) /\ PlannedFor(r)
      /\ plan[r].upload \subseteq Selected(copy[r])
  BY <1>0, <1>1 DEF CalmInv, FolderOf
<1>3. CASE Fail(r, "upload", copy[r]) /\ UNCHANGED <<lib, made>>
  <2>1. Knows(result)'
    BY <1>2, <1>3
    DEF Fail, Knows, Tracked, ItemIds, Items, Pending
  <2> QED
    BY <1>0, <1>1, <1>3, <2>1, CalmEnd DEF Fail
<1>4. CASE Go(r, "upload", "delete")
  <2> DEFINE new == {a \in plan[r].upload : lib[a] = 0}
             is  == [a \in Appendices |-> IF a \in new THEN made[a] + 1 ELSE lib[a]]
             ids == [a \in Appendices |->
                       IF a \in plan[r].upload THEN is[a] ELSE plan[r].ids[a]]
  <2>1. /\ lib' = is /\ plan' = [plan EXCEPT ![r].ids = ids]
        /\ pc' = [pc EXCEPT ![r] = "delete"] /\ UNCHANGED <<result, copy>>
    <3>1. ~ Fail(r, "upload", copy[r])
      BY <1>0, <1>4 DEF Fail, Go
    <3> QED
      BY <1>4, <3>1 DEF Upload, Go
  <2>2. /\ \A a \in Appendices :
              /\ a \in plan[r].upload => is[a] # 0 /\ ids[a] = is[a]
              /\ a \notin plan[r].upload => is[a] = lib[a] /\ ids[a] = plan[r].ids[a]
    BY <1>0
  <2> HIDE DEF new, is, ids
  <2>3. /\ plan'[r].ids = ids /\ plan'[r].stale = plan[r].stale /\ pc'[r] = "delete"
        /\ Open' = {r} /\ copy'[r] = copy[r]
    BY <1>0, <1>2, <2>1 DEF Plans, Open
  <2>4. ASSUME NEW a \in Appendices
        PROVE  /\ lib'[a] # 0 =>
                     \/ a \in Selected(copy[r]) /\ ids[a] = lib'[a]
                     \/ <<a, lib'[a]>> \in plan[r].stale
               /\ a \in Selected(copy[r]) => ids[a] # 0
    <3>1. CASE a \in plan[r].upload
      BY <1>2, <2>1, <2>2, <3>1
    <3>2. CASE a \notin plan[r].upload
      <4>1. lib'[a] = lib[a] /\ ids[a] = plan[r].ids[a]
        BY <2>1, <2>2, <3>2
      <4> QED
        BY <1>1, <1>2, <3>2, <4>1 DEF PlannedFor
    <3> QED
      BY <3>1, <3>2
  <2>5. PlannedFor(r)'
    BY <2>3, <2>4 DEF PlannedFor, Selected
  <2> QED
    BY <1>1, <1>2, <2>3, <2>5 DEF CalmInv, FolderOf
<1> QED
  BY <1>3, <1>4 DEF Upload

LEMMA CalmDelete ==
  ASSUME ParseResultConstants, TypeOK, NEW r \in Open, Delete(r), calm,
         CalmInv
  PROVE  CalmInv'
<1>0. /\ pc \in [Requests -> Opening \cup Closed \cup {"idle"}]
      /\ Opening = {"prepare", "index", "upload", "delete", "finish"}
      /\ r \in Requests /\ lib \in [Appendices -> Nat] /\ plan[r] \in Plans
      /\ copy \in [Requests -> Results] /\ copy[r] \in Results
  BY DEF TypeOK, Opening, Open
<1>1. /\ pc[r] = "delete" /\ pc' = [pc EXCEPT ![r] = "finish"]
      /\ UNCHANGED <<worker, held, calm, result>>
  BY DEF Delete, Go
<1>2. Open = {r} /\ worker = "idle" /\ PlannedFor(r)
  BY <1>0, <1>1 DEF CalmInv, FolderOf
<1> DEFINE chosen == Selected(copy[r])
           items  == [a \in Appendices |-> IF a \in chosen THEN plan[r].ids[a] ELSE 0]
<1>3. PICK failed \in SUBSET plan[r].stale :
        /\ lib' = [a \in Appendices |->
               IF <<a, lib[a]>> \in plan[r].stale \ failed THEN 0 ELSE lib[a]]
        /\ copy' = [copy EXCEPT ![r].sync = [items |-> items, pending |-> failed]]
  BY DEF Delete
<1>4. /\ items \in [Appendices -> Nat]
      /\ \A a \in Appendices : items[a] = IF a \in chosen THEN plan[r].ids[a] ELSE 0
  BY <1>0 DEF Plans
<1> HIDE DEF items
<1>5. /\ copy'[r].sync = [items |-> items, pending |-> failed]
      /\ copy'[r].chosen = copy[r].chosen
  BY <1>0, <1>3 DEF Results
<1>6. /\ Items(copy'[r]) = items /\ Pending(copy'[r]) = failed
      /\ Selected(copy'[r]) = chosen
  <2>1. [items |-> items, pending |-> failed] \in Syncs
    BY <1>0, <1>4 DEF Syncs, Plans
  <2>2. copy'[r].sync # NoSync
    BY <1>5, <2>1 DEF ParseResultConstants
  <2> QED
    BY <1>5, <2>2 DEF Items, Pending, Selected
<1>7. ASSUME NEW a \in Appendices, lib'[a] # 0
      PROVE  <<a, lib'[a]>> \in Tracked(copy'[r])
  <2>1. lib'[a] = lib[a] /\ <<a, lib[a]>> \notin plan[r].stale \ failed
    BY <1>3, <1>7
  <2>2. CASE <<a, lib[a]>> \in failed
    BY <1>6, <2>1, <2>2 DEF Tracked
  <2>3. CASE a \in chosen /\ plan[r].ids[a] = lib[a]
    <3>1. Items(copy'[r])[a] = lib'[a]
      BY <1>4, <1>6, <2>1, <2>3
    <3> QED
      BY <1>7, <3>1 DEF Tracked, ItemIds
  <2> QED
    BY <1>1, <1>2, <1>7, <2>1, <2>2, <2>3 DEF PlannedFor
<1>8. \A a \in Appendices : items[a] # 0 <=> a \in chosen
  BY <1>1, <1>2, <1>4 DEF PlannedFor
<1>9. Open' = {r} /\ pc'[r] = "finish"
  BY <1>0, <1>1, <1>2 DEF Open
<1>10. FolderOf(r)'
  <2>1. Knows(copy[r])'
    BY <1>7 DEF Knows, Tracked, ItemIds, Items, Pending
  <2>2. \A a \in Appendices :
           (Items(copy[r])[a] # 0 <=> a \in Selected(copy[r]))'
    BY <1>6, <1>8 DEF Items, Selected
  <2> QED
    BY <1>9, <2>1, <2>2 DEF FolderOf
<1> QED
  BY <1>1, <1>2, <1>9, <1>10 DEF CalmInv

LEMMA CalmFinish ==
  ASSUME ParseResultConstants, TypeOK, NEW r \in Open, Finish(r), calm,
         CalmInv
  PROVE  /\ CalmInv'
         /\ pc'[r] # pc[r] /\ pc'[r] = "synced" =>
               {a \in Appendices : lib[a] # 0} = Selected(copy[r])
<1> DEFINE c == copy[r]
<1>0. /\ pc \in [Requests -> Opening \cup Closed \cup {"idle"}]
      /\ Opening = {"prepare", "index", "upload", "delete", "finish"}
      /\ {"synced", "partial", "failed"} \subseteq Closed
      /\ r \in Requests /\ lib \in [Appendices -> Nat] /\ c \in Results
  BY DEF TypeOK, Opening, Closed, Open
<1>1. pc[r] = "finish" /\ result' = c /\ UNCHANGED <<lib, worker, held, calm>>
  BY DEF Finish, Go, Fail, Succeed
<1>2. /\ Knows(c)
      /\ \A a \in Appendices : Items(c)[a] # 0 <=> a \in Selected(c)
  BY <1>0, <1>1 DEF CalmInv, FolderOf
<1>3. Knows(result)'
  BY <1>1, <1>2 DEF Knows, Tracked, ItemIds, Items, Pending
<1>4. PICK to \in {"synced", "partial", "failed"} : Go(r, "finish", to)
  BY DEF Finish, Fail, Succeed
<1>5. CalmInv'
  BY <1>0, <1>1, <1>3, <1>4, CalmEnd
<1>6. ASSUME pc'[r] = "synced"
      PROVE  {a \in Appendices : lib[a] # 0} = Selected(c)
  <2>1. to = "synced"
    BY <1>0, <1>4, <1>6 DEF Go
  <2>2. ItemIds(c) \subseteq InFolder /\ c.sync.pending = {}
    BY <1>0, <1>4, <1>6 DEF Finish, Fail, Succeed, Go
  <2>3. Pending(c) = {}
    BY <2>2 DEF Pending
  <2>4. ASSUME NEW a \in Appendices PROVE lib[a] # 0 <=> Items(c)[a] # 0
    <3>1. ASSUME lib[a] # 0 PROVE Items(c)[a] # 0
      BY <1>2, <2>3, <3>1, InTracked DEF Knows
    <3>2. ASSUME Items(c)[a] # 0 PROVE lib[a] # 0
      <4>1. <<a, Items(c)[a]>> \in InFolder
        BY <2>2, <3>2, InTracked
      <4> QED
        BY <4>1, InTracked
    <3> QED
      BY <3>1, <3>2
  <2> QED
    BY <1>2, <2>4 DEF Selected
<1> QED
  BY <1>5, <1>6

LEMMA CalmStep ==
  ASSUME ParseResultConstants, TypeOK, Unparsed, CalmInv, [Next]_vars
  PROVE  /\ CalmInv'
         /\ ~ UNCHANGED vars => SyncedStep
<1> USE DEF counters
<1>0. /\ pc \in [Requests -> Opening \cup Closed \cup {"idle"}]
      /\ Opening = {"prepare", "index", "upload", "delete", "finish"}
      /\ copy \in [Requests -> Results] /\ lib \in [Appendices -> Nat]
      /\ result \in Results /\ file \in Results
  BY DEF TypeOK, Opening
\* What a calm state knows of the folder depends on nothing else.
<1>1. ASSUME UNCHANGED <<lib, pc, copy, plan, worker, held>>, calm' => calm,
             calm /\ Knows(result) => Knows(result)'
      PROVE  CalmInv'
  <2>1. /\ Open' = Open
        /\ \A r \in Requests : FolderOf(r)' <=> FolderOf(r)
        /\ Knows(held)' <=> Knows(held)
    BY <1>1
    DEF Open, FolderOf, PlannedFor, Knows, Selected, Tracked, ItemIds,
        Items, Pending
  <2> QED
    BY <1>1, <2>1 DEF CalmInv, Open
<1>2. UNCHANGED pc => SyncedStep
  BY DEF SyncedStep
<1>3. CASE Complete
  <2>1. SUFFICES ASSUME calm' PROVE CalmInv'
    BY <1>2, <1>3 DEF CalmInv, Complete
  <2>2. Open = {} /\ parses = 0 /\ worker' = "completed" /\ UNCHANGED <<pc, lib>>
    BY <1>3, <2>1 DEF Complete
  <2>3. Open' = {} /\ \A a \in Appendices : lib'[a] = 0
    BY <2>2 DEF Unparsed, Open
  <2> QED
    BY <2>2, <2>3 DEF CalmInv, Knows
<1>4. CASE Refresh
  <2>1. Knows(result) => Knows(result)'
    <3>1. Knows(result) => Knows(Refreshed(result))
      BY <1>0, RefreshKnows
    <3> QED
      BY <1>4, <3>1
      DEF Refresh, Knows, Tracked, ItemIds, Items, Pending
  <2> QED
    BY <1>1, <1>2, <1>4, <2>1 DEF Refresh
<1>5. CASE WorkerRefresh
  <2>1. SUFFICES ASSUME calm PROVE CalmInv'
    BY <1>2, <1>5 DEF CalmInv, WorkerRefresh
  <2>2. Open = {} /\ Knows(result)
    BY <1>5, <2>1 DEF CalmInv, WorkerRefresh
  <2>3. Knows(Refreshed(result))
    BY <1>0, <2>2, RefreshKnows
  <2>4. Knows(result)' /\ Knows(held)'
    BY <1>5, <2>2, <2>3
    DEF WorkerRefresh, Knows, Tracked, ItemIds, Items, Pending
  <2>5. Open' = {}
    BY <1>5, <2>2 DEF WorkerRefresh, Open
  <2> QED
    BY <2>4, <2>5 DEF CalmInv
<1>6. CASE WorkerPromote
  <2>1. SUFFICES ASSUME calm PROVE CalmInv'
    BY <1>2, <1>6 DEF CalmInv, WorkerPromote
  <2>2. Open = {} /\ Knows(result) /\ Knows(held)
    BY <1>6, <2>1 DEF CalmInv, WorkerPromote
  <2>3. Knows(result)' /\ worker' = "idle" /\ Open' = {}
    BY <1>6, <2>2
    DEF WorkerPromote, Knows, Tracked, ItemIds, Items, Pending,
        Open
  <2> QED
    BY <2>3 DEF CalmInv
<1>7. ASSUME NEW answer, NEW some, Choose(some, answer)
      PROVE  CalmInv' /\ SyncedStep
  <2>1. result'.sync = result.sync
    BY <1>0, <1>7 DEF Choose, Results
  <2>2. Knows(result) => Knows(result)'
    BY <1>7, <2>1
    DEF Choose, Knows, Tracked, ItemIds, Items, Pending
  <2> QED
    BY <1>1, <1>2, <1>7, <2>2 DEF Choose
<1>8. ASSUME NEW c \in Candidates, Confirm(c) \/ Ignore(c)
      PROVE  CalmInv' /\ SyncedStep
  <2>1. result'.sync = result.sync
    BY <1>0, <1>8 DEF Confirm, Ignore, Results
  <2>2. Knows(result) => Knows(result)'
    BY <1>8, <2>1
    DEF Confirm, Ignore, Knows, Tracked, ItemIds, Items,
        Pending
  <2> QED
    BY <1>1, <1>2, <1>8, <2>2 DEF Confirm, Ignore
\* A file less.
<1>9. ASSUME NEW a \in Appendices, Remove(a) PROVE CalmInv' /\ SyncedStep
  <2>1. /\ \A b \in Appendices : lib'[b] # 0 => lib'[b] = lib[b]
        /\ UNCHANGED <<result, worker, held, pc, copy, plan, calm>>
    BY <1>0, <1>9 DEF Remove
  <2>2. ASSUME NEW r \in Requests, FolderOf(r) PROVE FolderOf(r)'
    <3>1. Knows(copy[r]) => Knows(copy[r])'
      BY <2>1 DEF Knows, Tracked, ItemIds, Items, Pending
    <3>2. PlannedFor(r) => PlannedFor(r)'
      BY <2>1 DEF PlannedFor, Selected
    <3>3. pc[r] = "upload" => plan'[r].upload \subseteq Selected(copy[r])'
      BY <2>1, <2>2 DEF FolderOf, Selected
    <3>4. pc[r] = "finish" =>
             \A b \in Appendices :
                Items(copy[r])'[b] # 0 <=> b \in Selected(copy[r])'
      BY <2>1, <2>2 DEF FolderOf, Selected, Items
    <3> QED
      BY <2>1, <2>2, <3>1, <3>2, <3>3, <3>4 DEF FolderOf
  <2>3. (Knows(result) => Knows(result)') /\ (Knows(held) => Knows(held)')
    BY <2>1 DEF Knows, Tracked, ItemIds, Items, Pending
  <2>4. Open' = Open /\ Open \subseteq Requests
    BY <2>1 DEF Open
  <2> QED
    BY <1>2, <2>1, <2>2, <2>3, <2>4 DEF CalmInv
<1>10. ASSUME NEW r \in Requests, Ask(r) PROVE CalmInv' /\ SyncedStep
  <2>1. /\ copy'[r] = result /\ pc'[r] = "prepare" /\ UNCHANGED <<result, lib, worker>>
        /\ \A s \in Requests \ {r} : pc'[s] = pc[s]
    BY <1>0, <1>10 DEF Ask, Go
  <2>2. SyncedStep
    BY <2>1 DEF SyncedStep
  <2>3. SUFFICES ASSUME calm' PROVE CalmInv'
    BY <2>2 DEF CalmInv
  <2>4. calm /\ Open = {} /\ worker = "idle"
    BY <1>10, <2>3 DEF Ask, SomeHold
  <2>5. Knows(result) /\ Open' = {r}
    BY <1>0, <2>1, <2>4 DEF CalmInv, Open
  <2>6. Knows(result)' /\ Knows(copy[r])'
    BY <2>1, <2>5 DEF Knows, Tracked, ItemIds, Items, Pending
  <2> QED
    BY <2>1, <2>4, <2>5, <2>6 DEF CalmInv, FolderOf
\* A request goes on.
<1>11. ASSUME NEW r \in Requests,
              \/ Prepare(r) \/ Index(r) \/ Upload(r) \/ Delete(r)
              \/ Finish(r)
       PROVE  CalmInv' /\ SyncedStep
  <2>1. /\ r \in Open /\ UNCHANGED calm
        /\ \A s \in Requests \ {r} : pc'[s] = pc[s]
    BY <1>0, <1>11
    DEF Prepare, Index, Upload, Delete, Finish, Go, Fail,
        Succeed, Open
  <2>2. SUFFICES ASSUME calm PROVE CalmInv' /\ SyncedStep
    BY <2>1 DEF CalmInv, SyncedStep
  <2>3. CASE Prepare(r) \/ Upload(r) \/ Delete(r)
    <3>1. pc'[r] \notin {"synced", "skipped"}
      BY <1>0, <2>3
      DEF Prepare, Upload, Delete, Go, Fail
    <3> QED
      BY <2>1, <2>2, <2>3, <3>1, CalmPrepare, CalmUpload, CalmDelete
      DEF SyncedStep
  <2>4. CASE Index(r)
    <3>1. pc'[r] # "synced"
      BY <1>0, <2>4 DEF Index, Go, Fail, Succeed
    <3> QED
      BY <2>1, <2>2, <2>4, <3>1, CalmIndex DEF SyncedStep
  <2>5. CASE Finish(r)
    <3>1. pc'[r] # "skipped"
      BY <1>0, <2>5 DEF Finish, Go, Fail, Succeed
    <3> QED
      BY <2>1, <2>2, <2>5, <3>1, CalmFinish DEF SyncedStep
  <2> QED
    BY <1>11, <2>3, <2>4, <2>5
<1>12. CASE Restart
  <2>1. calm' = FALSE /\ \A r \in Requests : pc'[r] \in {"lost", pc[r]}
    BY <1>12 DEF Restart
  <2> QED
    BY <2>1 DEF CalmInv, SyncedStep
<1>13. CASE UNCHANGED vars
  <2>1. Knows(result) => Knows(result)'
    BY <1>13
    DEF vars, Knows, Tracked, ItemIds, Items, Pending
  <2> QED
    BY <1>1, <1>13, <2>1 DEF vars
<1> QED
  BY <1>3, <1>4, <1>5, <1>6, <1>7, <1>8, <1>9, <1>10, <1>11, <1>12, <1>13 DEF Next

LEMMA InitFolder == Init => Unparsed /\ CalmInv
<1> SUFFICES ASSUME Init PROVE Unparsed /\ CalmInv
  OBVIOUS
<1>1. /\ Open = {} /\ \A a \in Appendices : lib[a] = 0
      /\ result.status = "idle" /\ Selected(result) = {} /\ worker = "idle"
  BY BlankIs DEF Init, Open, Opening, NoFiles
<1> QED
  BY <1>1 DEF Unparsed, CalmInv, Knows

FolderInv == TypeOK /\ Unparsed /\ CalmInv

LEMMA FolderStep ==
  ASSUME ParseResultConstants, FolderInv, [Next]_vars
  PROVE  FolderInv'
  BY ResTypeStep, UnparsedStep, CalmStep DEF FolderInv

-----------------------------------------------------------------------------
(* Theorems about the folder.                                              *)

\* Between requests that do not overlap and are not cut short nothing is in the
\* material folder that the result does not know of, whichever call of a request
\* failed and whatever users delete (BidProjectService.update, "finally").
THEOREM FolderIsTracked ==
  ASSUME ParseResultConstants
  PROVE  Spec => []FolderTracked
<1>1. FolderInv => FolderTracked
  BY KnowsIs DEF FolderInv, CalmInv, FolderTracked, SomeHold
<1>2. Init => FolderInv
  BY InitRes, InitFolder DEF FolderInv
<1> QED
  BY <1>1, <1>2, FolderStep, PTL DEF Spec

\* Such a request that answers "synced" or "skipped" leaves exactly the chosen
\* appendices in the folder, for any history of requests, failed calls, choices and
\* deletions before it (sync_technical_appendix_materials).
THEOREM SyncedAreChosen ==
  ASSUME ParseResultConstants
  PROVE  Spec => SyncedIsChosen
<1>1. FolderInv /\ [Next]_vars => [SyncedStep]_vars
  BY CalmStep DEF FolderInv
<1>2. Init => FolderInv
  BY InitRes, InitFolder DEF FolderInv
<1> QED
  BY <1>1, <1>2, FolderStep, PTL DEF Spec, SyncedIsChosen
=============================================================================
