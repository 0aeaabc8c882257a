--------------------------- MODULE AnalyticsProofs ---------------------------
(***************************************************************************)
(* The edges of the analytics pipeline, for any number of requests, events *)
(* and failures: what the batch endpoints promise about a key (EventIntake)*)
(* what the ClickHouse writer keeps (ClickHouseIngest), and what a decision*)
(* of the runtime rests on and where it goes (Decide).                     *)
(***************************************************************************)
EXTENDS EventIntake, ClickHouseIngest, Decide, WellFoundedInduction, TLAPS

-----------------------------------------------------------------------------
(* Sequences as sets                                                       *)

LEMMA ToSetConcat ==
    ASSUME NEW S, NEW s \in Seq(S), NEW t \in Seq(S)
    PROVE  ToSet(s \o t) = ToSet(s) \cup ToSet(t)
  <1>. DEFINE st == s \o t
  <1>1. /\ DOMAIN s = 1..Len(s) /\ DOMAIN t = 1..Len(t) /\ DOMAIN st = 1..(Len(s) + Len(t))
        /\ Len(s) \in Nat /\ Len(t) \in Nat
        /\ \A k \in 1..Len(s) : st[k] = s[k]
        /\ \A k \in 1..Len(t) : st[Len(s) + k] = t[k]
    OBVIOUS
  <1>. HIDE DEF st
  <1>2. \A k \in 1..(Len(s) + Len(t)) :
            k \in 1..Len(s) \/ (k - Len(s) \in 1..Len(t) /\ k = Len(s) + (k - Len(s)))
    BY <1>1
  <1>3. \A x : x \in ToSet(st) <=> x \in ToSet(s) \/ x \in ToSet(t)
    <2>. SUFFICES ASSUME NEW x
                  PROVE  x \in ToSet(st) <=> x \in ToSet(s) \/ x \in ToSet(t)
      OBVIOUS
    <2>1. ASSUME x \in ToSet(st)
          PROVE  x \in ToSet(s) \/ x \in ToSet(t)
      <3>1. PICK k \in 1..(Len(s) + Len(t)) : x = st[k]
        BY <1>1, <2>1 DEF ToSet
      <3>2. QED
        BY <1>1, <1>2, <3>1 DEF ToSet
    <2>2. ASSUME x \in ToSet(s)
          PROVE  x \in ToSet(st)
      <3>1. PICK k \in 1..Len(s) : x = s[k]
        BY <1>1, <2>2 DEF ToSet
      <3>2. k \in 1..(Len(s) + Len(t)) /\ x = st[k]
        BY <1>1, <3>1
      <3>3. QED
        BY <1>1, <3>2 DEF ToSet
    <2>3. ASSUME x \in ToSet(t)
          PROVE  x \in ToSet(st)
      <3>1. PICK k \in 1..Len(t) : x = t[k]
        BY <1>1, <2>3 DEF ToSet
      <3>2. Len(s) + k \in 1..(Len(s) + Len(t)) /\ x = st[Len(s) + k]
        BY <1>1, <3>1
      <3>3. QED
        BY <1>1, <3>2 DEF ToSet
    <2>4. QED
      BY <2>1, <2>2, <2>3
  <1>4. QED
    BY <1>3 DEF st

LEMMA ToSetAppend ==
    ASSUME NEW S, NEW s \in Seq(S), NEW x \in S
    PROVE  ToSet(Append(s, x)) = ToSet(s) \cup {x}
  <1>1. Append(s, x) = s \o <<x>> /\ <<x>> \in Seq(S)
    OBVIOUS
  <1>2. ToSet(<<x>>) = {x}
    BY DEF ToSet
  <1>3. ToSet(s \o <<x>>) = ToSet(s) \cup ToSet(<<x>>)
    BY <1>1, ToSetConcat
  <1>4. QED
    BY <1>1, <1>2, <1>3

LEMMA ToSetEmpty == ToSet(<<>>) = {}
  BY DEF ToSet

\* The part of a batch that a broker has stored.
LEMMA ToSetPrefix ==
    ASSUME NEW S, NEW s \in Seq(S), NEW n \in 0..Len(s)
    PROVE  /\ SubSeq(s, 1, n) \in Seq(S)
           /\ ToSet(SubSeq(s, 1, n)) \subseteq ToSet(s)
  <1>1. /\ SubSeq(s, 1, n) \in Seq(S) /\ Len(SubSeq(s, 1, n)) = n
        /\ \A k \in 1..n : SubSeq(s, 1, n)[k] = s[k]
        /\ DOMAIN s = 1..Len(s) /\ DOMAIN SubSeq(s, 1, n) = 1..n
        /\ Len(s) \in Nat
    OBVIOUS
  <1>2. QED
    BY <1>1 DEF ToSet

-----------------------------------------------------------------------------
(* The requests of the batch endpoints                                     *)

Working == {"check", "insert", "find", "replace"}

\* A request answers its items one after the other.
InOrder(r) ==
    /\ Len(call[r].results) <= Len(request[r].items)
    /\ call[r].at \in Working => /\ call[r].next <= Len(request[r].items)
                                 /\ Len(call[r].results) = call[r].next - 1
    /\ At(r, "idle") => call[r] = NoCall

IntakeShape ==
    /\ log \in [Topics -> Seq(Messages)]
    /\ IntakeTypeOK
    /\ \A r \in Requests : InOrder(r)

\* What a step of request r does to the others.
OnlyCall(r) ==
    /\ request' = request
    /\ \A q \in Requests \ {r} : call'[q] = call[q]

LEMMA CallTypes ==
    ASSUME IntakeShape, NEW r \in Requests
    PROVE  /\ call[r].at \in Steps
           /\ call[r].next \in Nat \ {0}
           /\ call[r].claimed \in Seq(Messages)
           /\ call[r].results \in Seq(Statuses)
           /\ request[r].topic \in Endpoints
           /\ request[r].items \in Seq(Items)
           /\ call[r].at \in Working => Item(r) \in Items /\ Item(r).id \in Ids
                                        /\ MessageOf(Item(r)) \in Messages
  <1>1. /\ call[r] \in [at : Steps, next : Nat \ {0},
                        claimed : Seq(Messages), results : Seq(Statuses)]
        /\ request[r] \in [topic : Endpoints, items : Seq(Items)]
        /\ InOrder(r)
    BY DEF IntakeShape, IntakeTypeOK
  <1>2. ASSUME call[r].at \in Working
        PROVE  Item(r) \in Items
    <2>1. call[r].next \in 1..Len(request[r].items)
      BY <1>1, <1>2 DEF InOrder
    <2>2. QED
      BY <1>1, <2>1 DEF Item
  <1>3. QED
    BY <1>1, <1>2 DEF Items, MessageOf, Messages

LEMMA MoveFacts ==
    ASSUME IntakeShape, NEW r \in Requests, NEW step \in Steps, MoveTo(r, step),
           request' = request
    PROVE  /\ call' \in [Requests -> [at : Steps, next : Nat \ {0},
                                      claimed : Seq(Messages), results : Seq(Statuses)]]
           /\ OnlyCall(r)
           /\ call'[r].at = step
           /\ call'[r].next = call[r].next
           /\ call'[r].claimed = call[r].claimed
           /\ call'[r].results = call[r].results
           /\ Item(r)' = Item(r)
  <1>1. /\ call \in [Requests -> [at : Steps, next : Nat \ {0},
                                  claimed : Seq(Messages), results : Seq(Statuses)]]
        /\ call' = [call EXCEPT ![r] = [call[r] EXCEPT !.at = step]]
    BY DEF IntakeShape, IntakeTypeOK, MoveTo
  <1>2. call'[r] = [call[r] EXCEPT !.at = step]
    BY <1>1
  <1>3. /\ call'[r].at = step
        /\ call'[r].next = call[r].next
        /\ call'[r].claimed = call[r].claimed
        /\ call'[r].results = call[r].results
    BY <1>1, <1>2
  <1>4. QED
    BY <1>1, <1>3 DEF OnlyCall, Item

LEMMA AnswerFacts ==
    ASSUME IntakeShape, NEW r \in Requests, call[r].at \in Working,
           NEW s \in Statuses, NEW claimed \in BOOLEAN, Answer(r, s, claimed),
           request' = request
    PROVE  /\ call' \in [Requests -> [at : Steps, next : Nat \ {0},
                                      claimed : Seq(Messages), results : Seq(Statuses)]]
           /\ OnlyCall(r)
           /\ call'[r].at = After(r)
           /\ call'[r].at \in {"check", "publish"}
           /\ call'[r].next = call[r].next + 1
           /\ call'[r].claimed = IF claimed THEN Append(call[r].claimed, MessageOf(Item(r)))
                                            ELSE call[r].claimed
           /\ call'[r].results = Append(call[r].results, s)
  <1>. DEFINE more == IF claimed THEN Append(call[r].claimed, MessageOf(Item(r)))
                                 ELSE call[r].claimed
              new == [at |-> After(r), next |-> call[r].next + 1,
                      claimed |-> more, results |-> Append(call[r].results, s)]
  <1>1. /\ call \in [Requests -> [at : Steps, next : Nat \ {0},
                                  claimed : Seq(Messages), results : Seq(Statuses)]]
        /\ call' = [call EXCEPT ![r] = new]
    BY DEF IntakeShape, IntakeTypeOK, Answer
  <1>2. /\ After(r) \in {"check", "publish"} /\ After(r) \in Steps
        /\ call[r].next + 1 \in Nat \ {0}
        /\ Append(call[r].results, s) \in Seq(Statuses)
    BY CallTypes DEF After, Steps
  <1>3. more \in Seq(Messages)
    BY CallTypes
  <1>. HIDE DEF more
  <1>4. new \in [at : Steps, next : Nat \ {0},
                 claimed : Seq(Messages), results : Seq(Statuses)]
    BY <1>2, <1>3
  <1>5. call'[r] = new /\ OnlyCall(r)
    BY <1>1 DEF OnlyCall
  <1>6. QED
    BY <1>1, <1>2, <1>4, <1>5 DEF more

\* The step of a request that only moves on.
LEMMA MoveShape ==
    ASSUME IntakeShape, NEW r \in Requests, NEW step \in Steps, MoveTo(r, step),
           request' = request, step # "idle",
           step \in Working => call[r].at \in Working \/ (At(r, "idle") /\ request[r].items # <<>>),
           log' \in [Topics -> Seq(Messages)],
           keys' \in [Ids -> {NoKey} \cup [hash : Hashes, live : BOOLEAN]],
           lapsed' \subseteq Ids, abandoned' \subseteq Ids
    PROVE  IntakeShape'
  <1>1. InOrder(r) /\ \A q \in Requests : InOrder(q)
    BY DEF IntakeShape
  <1>2. InOrder(r)'
    <2>1. At(r, "idle") /\ request[r].items # <<>> =>
              /\ call[r].next = 1 /\ call[r].results = <<>>
              /\ 1 <= Len(request[r].items)
      BY <1>1, CallTypes DEF InOrder, NoCall
    <2>2. QED
      BY <1>1, <2>1, MoveFacts, CallTypes DEF InOrder, At, Working
  <1>3. \A q \in Requests \ {r} : InOrder(q)'
    BY <1>1, MoveFacts DEF OnlyCall, InOrder, At
  <1>4. QED
    BY <1>2, <1>3, MoveFacts DEF IntakeShape, IntakeTypeOK

\* The step of a request that answers an item.
LEMMA AnswerShape ==
    ASSUME IntakeShape, NEW r \in Requests, call[r].at \in Working,
           NEW s \in Statuses, NEW claimed \in BOOLEAN, Answer(r, s, claimed),
           request' = request,
           log' \in [Topics -> Seq(Messages)],
           keys' \in [Ids -> {NoKey} \cup [hash : Hashes, live : BOOLEAN]],
           lapsed' \subseteq Ids, abandoned' \subseteq Ids
    PROVE  IntakeShape'
  <1>1. InOrder(r) /\ \A q \in Requests : InOrder(q)
    BY DEF IntakeShape
  <1>2. InOrder(r)'
    <2>1. /\ call[r].next <= Len(request[r].items)
          /\ Len(call[r].results) = call[r].next - 1
          /\ call[r].next \in Nat /\ Len(request[r].items) \in Nat
      BY <1>1, CallTypes DEF InOrder
    <2>2. Len(call'[r].results) = call[r].next
      BY <2>1, AnswerFacts, CallTypes
    <2>3. call'[r].at \in Working => call[r].next < Len(request[r].items)
      BY AnswerFacts DEF After, Working
    <2>4. call'[r].at # "idle" /\ call'[r].next = call[r].next + 1
      BY AnswerFacts
    <2>5. QED
      BY <2>1, <2>2, <2>3, <2>4 DEF InOrder, At
  <1>3. \A q \in Requests \ {r} : InOrder(q)'
    BY <1>1, AnswerFacts DEF OnlyCall, InOrder, At
  <1>4. QED
    BY <1>2, <1>3, AnswerFacts DEF IntakeShape, IntakeTypeOK

\* A row written for item r.
LEMMA KeyTypes ==
    ASSUME IntakeShape, NEW r \in Requests, call[r].at \in Working,
           keys' = [keys EXCEPT ![Item(r).id] = LiveKey(Item(r))]
    PROVE  /\ keys' \in [Ids -> {NoKey} \cup [hash : Hashes, live : BOOLEAN]]
           /\ keys'[Item(r).id] = [hash |-> Item(r).hash, live |-> TRUE]
           /\ keys'[Item(r).id] # NoKey
           /\ \A i \in Ids \ {Item(r).id} : keys'[i] = keys[i]
  <1>1. Item(r) \in Items /\ keys \in [Ids -> {NoKey} \cup [hash : Hashes, live : BOOLEAN]]
    BY CallTypes DEF IntakeShape, IntakeTypeOK
  <1>2. LiveKey(Item(r)) \in [hash : Hashes, live : BOOLEAN] /\ Item(r).id \in Ids
    BY <1>1 DEF LiveKey, Items
  <1>3. QED
    BY <1>1, <1>2, IntakeAssumption DEF LiveKey

LEMMA PublishTypes ==
    ASSUME IntakeShape, NEW r \in Requests, NEW msgs \in Seq(Messages),
           Write(request[r].topic, msgs)
    PROVE  /\ log' \in [Topics -> Seq(Messages)]
           /\ \A i : Published(i)' = Published(i) \cup {m \in ToSet(msgs) : m.id = i}
  <1>. DEFINE t == request[r].topic
  <1>1. t \in {"events", "exposures"} /\ {"events", "exposures"} \subseteq Topics
    BY CallTypes DEF Endpoints, Topics
  <1>2. log \in [Topics -> Seq(Messages)] /\ log[t] \in Seq(Messages)
    BY <1>1 DEF IntakeShape
  <1>3. log' = [log EXCEPT ![t] = log[t] \o msgs]
    BY DEF Write
  <1>4. ToSet(log[t] \o msgs) = ToSet(log[t]) \cup ToSet(msgs) /\ log[t] \o msgs \in Seq(Messages)
    BY <1>2, ToSetConcat
  <1>. HIDE DEF t
  <1>5. \A x \in Topics : log'[x] = IF x = t THEN log[t] \o msgs ELSE log[x]
    BY <1>2, <1>3
  <1>6. ToSet(log["events"])' \cup ToSet(log["exposures"])'
            = ToSet(log["events"]) \cup ToSet(log["exposures"]) \cup ToSet(msgs)
    BY <1>1, <1>4, <1>5
  <1>7. log' \in [Topics -> Seq(Messages)]
    BY <1>1, <1>2, <1>3, <1>4
  <1>8. QED
    BY <1>6, <1>7 DEF Published

-----------------------------------------------------------------------------
(* The shape is preserved                                                  *)

LEMMA ShapeInit ==
    ASSUME NEW workload \in Workloads, IntakeInit(workload),
           log \in [Topics -> Seq(Messages)]
    PROVE  IntakeShape
  <1>1. NoCall \in [at : Steps, next : Nat \ {0},
                    claimed : Seq(Messages), results : Seq(Statuses)]
    BY DEF NoCall, Steps
  <1>2. IntakeTypeOK
    <2>1. \A t \in Topics : ToSet(log[t]) \subseteq Messages
      BY DEF ToSet
    <2>2. lapsed \subseteq Ids
      BY <2>1 DEF IntakeInit, IdsIn, Topics, Messages
    <2>3. QED
      BY <1>1, <2>2 DEF IntakeInit, IntakeTypeOK, Workloads
  <1>3. \A r \in Requests : InOrder(r)
    BY <1>2 DEF IntakeInit, IntakeTypeOK, InOrder, NoCall, At, Working
  <1>4. QED
    BY <1>2, <1>3 DEF IntakeShape

LEMMA RequestShape ==
    ASSUME IntakeShape, NEW r \in Requests, RequestStep(r)
    PROVE  IntakeShape'
  <1>. DEFINE KeysOK == keys' \in [Ids -> {NoKey} \cup [hash : Hashes, live : BOOLEAN]]
  <1>1. /\ log \in [Topics -> Seq(Messages)]
        /\ keys \in [Ids -> {NoKey} \cup [hash : Hashes, live : BOOLEAN]]
        /\ lapsed \subseteq Ids /\ abandoned \subseteq Ids
    BY DEF IntakeShape, IntakeTypeOK
  <1>2. /\ {m.id : m \in Claims(r)} \subseteq Ids
        /\ IdsIn(call[r].claimed) \subseteq Ids
    <2>1. ToSet(call[r].claimed) \subseteq Messages
      BY CallTypes DEF ToSet
    <2>2. QED
      BY <2>1 DEF Claims, IdsIn, Messages
  <1>3. Begin(r) => IntakeShape'
    BY <1>1, MoveShape DEF Begin, Steps, Working
  <1>4. Check(r) => IntakeShape'
    BY <1>1, MoveShape, AnswerShape DEF Check, Steps, Working, At, Statuses
  <1>5. InsertKey(r) => IntakeShape'
    <2>1. CASE keys' = keys
      BY <1>1, <2>1, MoveShape, AnswerShape DEF InsertKey, Steps, Working, At, Statuses
    <2>2. CASE keys' = [keys EXCEPT ![Item(r).id] = LiveKey(Item(r))]
      BY <1>1, <2>2, KeyTypes, MoveShape, AnswerShape
         DEF InsertKey, Steps, Working, At, Statuses
    <2>3. QED
      BY <2>1, <2>2 DEF InsertKey
  <1>6. FindKey(r) => IntakeShape'
    <2>. SUFFICES ASSUME FindKey(r)
                  PROVE  IntakeShape'
      OBVIOUS
    <2>1. call[r].at \in Working /\ UNCHANGED <<log, request, keys, lapsed>>
      BY DEF FindKey, At, Working
    <2>2. CASE Abort(r)
      BY <1>1, <1>2, <2>1, <2>2, MoveShape DEF Abort, Steps, Working
    <2>3. CASE MoveTo(r, "replace") /\ UNCHANGED abandoned
      BY <1>1, <2>1, <2>3, MoveShape DEF Steps
    <2>4. ASSUME NEW s \in Statuses, Answer(r, s, FALSE), UNCHANGED abandoned
          PROVE  IntakeShape'
      BY <1>1, <2>1, <2>4, AnswerShape
    <2>5. QED
      BY <2>2, <2>3, <2>4 DEF FindKey, Statuses
  <1>7. ReplaceKey(r) => IntakeShape'
    <2>1. CASE keys' = keys
      BY <1>1, <2>1, MoveShape, AnswerShape DEF ReplaceKey, Steps, Working, At, Statuses
    <2>2. CASE keys' = [keys EXCEPT ![Item(r).id] = LiveKey(Item(r))]
      BY <1>1, <2>2, KeyTypes, MoveShape, AnswerShape
         DEF ReplaceKey, Steps, Working, At, Statuses
    <2>3. QED
      BY <2>1, <2>2 DEF ReplaceKey
  <1>8. StorageFails(r) => IntakeShape'
    <2>. SUFFICES ASSUME StorageFails(r)
                  PROVE  IntakeShape'
      OBVIOUS
    <2>1. UNCHANGED <<log, request, lapsed>> /\ MoveTo(r, "failed")
      BY DEF StorageFails, Abort
    <2>2. keys' = keys \/ (call[r].at \in Working
                            /\ keys' = [keys EXCEPT ![Item(r).id] = LiveKey(Item(r))])
      BY DEF StorageFails, At, Working
    <2>3. KeysOK
      BY <1>1, <2>2, KeyTypes
    <2>4. abandoned' \subseteq Ids
      BY <1>1, <1>2, CallTypes DEF StorageFails, Abort, At, Working
    <2>. HIDE DEF KeysOK
    <2>5. QED
      BY <1>1, <2>1, <2>3, <2>4, MoveShape DEF Steps, Working, KeysOK
  <1>9. Publish(r) => IntakeShape'
    BY <1>1, PublishTypes, CallTypes, MoveShape DEF Publish, Steps, Working
  <1>10. PublishFails(r) => IntakeShape'
    <2>. SUFFICES ASSUME PublishFails(r)
                  PROVE  IntakeShape'
      OBVIOUS
    <2>1. PICK n \in 0..Len(call[r].claimed) :
              /\ Write(request[r].topic, SubSeq(call[r].claimed, 1, n))
              /\ lapsed' = lapsed \cup IdsIn(SubSeq(call[r].claimed, 1, n))
      BY DEF PublishFails
    <2>2. /\ SubSeq(call[r].claimed, 1, n) \in Seq(Messages)
          /\ ToSet(SubSeq(call[r].claimed, 1, n)) \subseteq ToSet(call[r].claimed)
      BY CallTypes, ToSetPrefix
    <2>3. IdsIn(SubSeq(call[r].claimed, 1, n)) \subseteq Ids
      BY <1>2, <2>2 DEF IdsIn
    <2>4. log' \in [Topics -> Seq(Messages)]
      BY <2>1, <2>2, PublishTypes
    <2>5. /\ lapsed' \subseteq Ids /\ abandoned' \subseteq Ids
          /\ MoveTo(r, "release") /\ UNCHANGED <<request, keys>>
      BY <1>1, <1>2, <2>1, <2>3 DEF PublishFails
    <2>6. QED
      BY <1>1, <2>4, <2>5, MoveShape DEF Steps, Working
  <1>11. Release(r) => IntakeShape'
    <2>. SUFFICES ASSUME Release(r)
                  PROVE  IntakeShape'
      OBVIOUS
    <2>1. /\ MoveTo(r, "refused") /\ UNCHANGED <<log, request, lapsed, abandoned>>
          /\ KeysOK
      BY <1>1 DEF Release
    <2>. HIDE DEF KeysOK
    <2>2. QED
      BY <1>1, <2>1, MoveShape DEF Steps, Working, KeysOK
  <1>12. ReleaseFails(r) => IntakeShape'
    BY <1>1, MoveShape DEF ReleaseFails, Steps, Working
  <1>13. QED
    BY <1>3, <1>4, <1>5, <1>6, <1>7, <1>8, <1>9, <1>10, <1>11, <1>12 DEF RequestStep

LEMMA ExpireShape ==
    ASSUME IntakeShape, NEW i \in Ids, ExpireKey(i)
    PROVE  /\ IntakeShape'
           /\ \A j \in Ids \ {i} : keys'[j] = keys[j]
           /\ \A j \in Ids : keys'[j] = NoKey <=> keys[j] = NoKey
  <1>. DEFINE Keys == [hash : Hashes, live : BOOLEAN]
  <1>1. /\ keys \in [Ids -> {NoKey} \cup Keys] /\ keys[i] \in Keys
        /\ keys' = [keys EXCEPT ![i] = [keys[i] EXCEPT !.live = FALSE]]
        /\ UNCHANGED <<log, request, call, abandoned>> /\ lapsed' = lapsed \cup {i}
    BY DEF ExpireKey, IntakeShape, IntakeTypeOK
  <1>2. [keys[i] EXCEPT !.live = FALSE] \in Keys
    BY <1>1
  <1>3. /\ keys' \in [Ids -> {NoKey} \cup Keys] /\ keys'[i] # NoKey /\ keys[i] # NoKey
        /\ \A j \in Ids \ {i} : keys'[j] = keys[j]
    BY <1>1, <1>2, IntakeAssumption
  <1>4. \A r \in Requests : InOrder(r)'
    BY <1>1 DEF IntakeShape, InOrder, At
  <1>5. IntakeTypeOK'
    BY <1>1, <1>3 DEF IntakeShape, IntakeTypeOK
  <1>6. QED
    BY <1>1, <1>3, <1>4, <1>5 DEF IntakeShape

LEMMA CrashShape ==
    ASSUME IntakeShape, IntakeDies, log' = log
    PROVE  /\ IntakeShape'
           /\ \A r \in Requests : /\ Claims(r)' = {}
                                  /\ call'[r].results = call[r].results
                                  /\ call'[r].at \notin Working \cup {"release"}
  <1>. DEFINE Calls == [at : Steps, next : Nat \ {0},
                        claimed : Seq(Messages), results : Seq(Statuses)]
  <1>1. /\ call \in [Requests -> Calls] /\ UNCHANGED <<log, request, keys, lapsed>>
        /\ call' = [r \in Requests |-> IF call[r].at \in Ended THEN call[r]
                                       ELSE [call[r] EXCEPT !.at = "failed"]]
    BY DEF IntakeShape, IntakeTypeOK, IntakeDies
  <1>2. ASSUME NEW r \in Requests
        PROVE  /\ call'[r] \in Calls /\ InOrder(r)' /\ Claims(r)' = {}
               /\ call'[r].results = call[r].results
               /\ call'[r].at \notin Working \cup {"release"}
    <2>1. call[r] \in Calls /\ InOrder(r)
      BY <1>1 DEF IntakeShape
    <2>2. CASE call[r].at \in Ended
      <3>1. call'[r] = call[r]
        BY <1>1, <2>2
      <3>2. QED
        BY <1>1, <2>1, <2>2, <3>1 DEF InOrder, At, Claims, Ended, Working
    <2>3. CASE call[r].at \notin Ended
      <3>1. call'[r] = [call[r] EXCEPT !.at = "failed"] /\ "failed" \in Steps
        BY <1>1, <2>3 DEF Steps
      <3>2. call'[r] \in Calls /\ call'[r].at = "failed" /\ call'[r].results = call[r].results
        BY <2>1, <3>1
      <3>3. QED
        BY <1>1, <2>1, <3>2 DEF InOrder, At, Claims, Working
    <2>4. QED
      BY <2>2, <2>3
  <1>3. abandoned' \subseteq Ids
    <2>1. ASSUME NEW r \in Requests
          PROVE  {m.id : m \in Claims(r)} \subseteq Ids
      <3>1. ToSet(call[r].claimed) \subseteq Messages
        BY CallTypes DEF ToSet
      <3>2. QED
        BY <3>1 DEF Claims, Messages
    <2>2. QED
      BY <2>1 DEF IntakeDies, IntakeShape, IntakeTypeOK
  <1>4. call' \in [Requests -> Calls]
    BY <1>1, <1>2
  <1>5. QED
    BY <1>1, <1>2, <1>3, <1>4 DEF IntakeShape, IntakeTypeOK

-----------------------------------------------------------------------------
(* What a step does to the claims                                          *)

Claiming == {"check", "insert", "find", "replace", "publish", "release"}

\* A request that moves on takes no claim of its own.
LEMMA MoveClaims ==
    ASSUME IntakeShape, NEW r \in Requests, NEW step \in Steps, MoveTo(r, step),
           request' = request,
           step \in Claiming => call[r].at \in Claiming \cup {"idle"}
    PROVE  /\ \A q \in Requests : Claims(q)' \subseteq Claims(q)
           /\ \A q \in Requests \ {r} : Claims(q)' = Claims(q)
           /\ step \in Claiming => Claims(r)' = Claims(r)
           /\ step \notin Claiming => Claims(r)' = {}
           /\ call[r].at \in Claiming => Claims(r) = ToSet(call[r].claimed)
  <1>1. \A q \in Requests \ {r} : Claims(q)' = Claims(q)
    BY MoveFacts DEF OnlyCall, Claims
  <1>2. At(r, "idle") => ToSet(call[r].claimed) = {}
    BY ToSetEmpty DEF IntakeShape, InOrder, NoCall
  <1>3. /\ step \in Claiming => Claims(r)' = Claims(r)
        /\ step \notin Claiming => Claims(r)' = {}
    BY <1>2, MoveFacts DEF Claims, Claiming, At
  <1>4. QED
    BY <1>1, <1>3 DEF Claims, Claiming

\* A request that answers an item may take the claim of that item.
LEMMA AnswerClaims ==
    ASSUME IntakeShape, NEW r \in Requests, call[r].at \in Working,
           NEW s \in Statuses, NEW claimed \in BOOLEAN, Answer(r, s, claimed),
           request' = request
    PROVE  /\ \A q \in Requests \ {r} : Claims(q)' = Claims(q)
           /\ Claims(r)' = IF claimed THEN Claims(r) \cup {MessageOf(Item(r))}
                                      ELSE Claims(r)
  <1>1. \A q \in Requests \ {r} : Claims(q)' = Claims(q)
    BY AnswerFacts DEF OnlyCall, Claims
  <1>2. Claims(r) = ToSet(call[r].claimed) /\ Claims(r)' = ToSet(call'[r].claimed)
    BY AnswerFacts DEF Claims, Working
  <1>3. /\ call[r].claimed \in Seq(Messages) /\ MessageOf(Item(r)) \in Messages
        /\ call'[r].claimed = IF claimed THEN Append(call[r].claimed, MessageOf(Item(r)))
                                         ELSE call[r].claimed
    BY AnswerFacts, CallTypes
  <1>4. ToSet(Append(call[r].claimed, MessageOf(Item(r))))
            = ToSet(call[r].claimed) \cup {MessageOf(Item(r))}
    BY <1>3, ToSetAppend
  <1>5. QED
    BY <1>1, <1>2, <1>3, <1>4

-----------------------------------------------------------------------------
(* One body per key                                                        *)

\* While key i is protected, one request at most holds its claim, nothing of
\* it is published before that request does, and whatever is claimed or
\* published has the hash of the row.
BodyOK(i) ==
    /\ keys[i] # NoKey => keys[i].live
    /\ \A m \in Published(i) : keys[i] # NoKey /\ m.hash = keys[i].hash
    /\ \A r \in Requests : \A m \in Claims(r) :
         m.id = i => keys[i] # NoKey /\ m.hash = keys[i].hash /\ Published(i) = {}
    /\ \A r, q \in Requests : \A m \in Claims(r), n \in Claims(q) :
         m.id = i /\ n.id = i => r = q

\* UPDATE is reached with an expired row only.
ReplaceLapsed(r) == At(r, "replace") => Item(r).id \in lapsed

BodyInv ==
    /\ \A r \in Requests : ReplaceLapsed(r)
    /\ \A i \in Ids \ lapsed : BodyOK(i)

LEMMA BodyKept ==
    ASSUME NEW i \in Ids, BodyOK(i), keys'[i] = keys[i], Published(i)' = Published(i),
           \A r \in Requests : Claims(r)' \subseteq Claims(r)
    PROVE  BodyOK(i)'
  BY DEF BodyOK

LEMMA BodyClaim ==
    ASSUME NEW i \in Ids, BodyOK(i), keys[i] = NoKey,
           NEW m, m.id = i, keys'[i] # NoKey, keys'[i].live, keys'[i].hash = m.hash,
           Published(i)' = Published(i), NEW r \in Requests,
           Claims(r)' \subseteq Claims(r) \cup {m},
           \A q \in Requests \ {r} : Claims(q)' \subseteq Claims(q)
    PROVE  BodyOK(i)'
  <1>1. Published(i) = {} /\ \A q \in Requests : \A n \in Claims(q) : n.id # i
    BY DEF BodyOK
  <1>2. \A q \in Requests : \A n \in Claims(q)' : n.id = i => q = r /\ n = m
    BY <1>1
  <1>3. Published(i)' = {}
    BY <1>1
  <1>4. QED
    BY <1>2, <1>3 DEF BodyOK

\* UPDATE is still reached with an expired row when r has moved.
LEMMA ReplaceKept ==
    ASSUME IntakeShape, \A q \in Requests : ReplaceLapsed(q), NEW r \in Requests,
           OnlyCall(r), lapsed \subseteq lapsed', ReplaceLapsed(r)'
    PROVE  \A q \in Requests : ReplaceLapsed(q)'
  BY DEF OnlyCall, ReplaceLapsed, At, Item

LEMMA RequestBody ==
    ASSUME IntakeShape, BodyInv, NEW r \in Requests, RequestStep(r)
    PROVE  BodyInv'
  <1>. DEFINE Kept == /\ UNCHANGED <<log, keys>> /\ lapsed \subseteq lapsed'
                      /\ \A q \in Requests : Claims(q)' \subseteq Claims(q)
  <1>1. ASSUME Kept
        PROVE  \A i \in Ids \ lapsed' : BodyOK(i)'
    <2>1. \A i : Published(i)' = Published(i)
      BY <1>1 DEF Published
    <2>2. QED
      BY <1>1, <2>1, BodyKept DEF BodyInv
  <1>2. ASSUME NEW step \in Steps, MoveTo(r, step), request' = request,
               lapsed \subseteq lapsed', step = "replace" => Item(r).id \in lapsed
        PROVE  \A q \in Requests : ReplaceLapsed(q)'
    <2>1. OnlyCall(r) /\ ReplaceLapsed(r)'
      BY <1>2, MoveFacts DEF ReplaceLapsed, At
    <2>2. QED
      BY <1>2, <2>1, ReplaceKept DEF BodyInv
  <1>3. ASSUME NEW s \in Statuses, NEW claimed \in BOOLEAN, Answer(r, s, claimed),
               request' = request, lapsed' = lapsed, call[r].at \in Working
        PROVE  \A q \in Requests : ReplaceLapsed(q)'
    <2>1. OnlyCall(r) /\ ReplaceLapsed(r)'
      BY <1>3, AnswerFacts DEF ReplaceLapsed, At
    <2>2. QED
      BY <1>3, <2>1, ReplaceKept DEF BodyInv
  <1>4. ASSUME NEW step \in Steps, MoveTo(r, step), UNCHANGED <<log, request, keys, lapsed>>,
               step = "replace" => Item(r).id \in lapsed,
               step \in Claiming => call[r].at \in Claiming \cup {"idle"}
        PROVE  BodyInv'
    <2>1. Kept
      BY <1>4, MoveClaims
    <2>. HIDE DEF Kept
    <2>2. QED
      BY <1>1, <1>2, <1>4, <2>1 DEF BodyInv
  <1>5. ASSUME NEW s \in Statuses, Answer(r, s, FALSE), call[r].at \in Working,
               UNCHANGED <<log, request, keys, lapsed>>
        PROVE  BodyInv'
    <2>1. Kept
      BY <1>5, AnswerClaims
    <2>. HIDE DEF Kept
    <2>2. QED
      BY <1>1, <1>3, <1>5, <2>1 DEF BodyInv
  \* A row is written for the item: by INSERT (no row) or UPDATE (an expired one).
  <1>6. ASSUME call[r].at \in Working, UNCHANGED <<log, request, lapsed>>,
               keys[Item(r).id] = NoKey \/ Item(r).id \in lapsed,
               keys' = [keys EXCEPT ![Item(r).id] = LiveKey(Item(r))],
               Claims(r)' \subseteq Claims(r) \cup {MessageOf(Item(r))},
               \A q \in Requests \ {r} : Claims(q)' \subseteq Claims(q)
        PROVE  \A i \in Ids \ lapsed' : BodyOK(i)'
    <2>1. \A i : Published(i)' = Published(i)
      BY <1>6 DEF Published
    <2>2. /\ MessageOf(Item(r)).id = Item(r).id /\ MessageOf(Item(r)).hash = Item(r).hash
      BY DEF MessageOf
    <2>3. /\ keys'[Item(r).id] = [hash |-> Item(r).hash, live |-> TRUE]
          /\ keys'[Item(r).id] # NoKey
          /\ \A i \in Ids \ {Item(r).id} : keys'[i] = keys[i]
      BY <1>6, KeyTypes
    <2>4. ASSUME NEW i \in Ids \ lapsed', i # Item(r).id
          PROVE  BodyOK(i)'
      <3>. DEFINE other == MessageOf(Item(r))
      <3>1. BodyOK(i) /\ keys'[i] = keys[i]
        BY <1>6, <2>3, <2>4 DEF BodyInv
      <3>2. \A q \in Requests : \A m \in Claims(q)' : m.id = i => m \in Claims(q)
        BY <1>6, <2>2, <2>4
      <3>3. QED
        BY <2>1, <3>1, <3>2 DEF BodyOK
    <2>5. ASSUME NEW i \in Ids \ lapsed', i = Item(r).id
          PROVE  BodyOK(i)'
      <3>1. BodyOK(i) /\ keys[i] = NoKey
        BY <1>6, <2>5 DEF BodyInv
      <3>2. /\ MessageOf(Item(r)).id = i
            /\ keys'[i] # NoKey /\ keys'[i].live /\ keys'[i].hash = MessageOf(Item(r)).hash
        BY <2>2, <2>3, <2>5
      <3>3. QED
        BY <1>6, <2>1, <3>1, <3>2, BodyClaim
    <2>6. QED
      BY <2>4, <2>5
  <1>7. Begin(r) => BodyInv'
    BY <1>4 DEF Begin, Steps, Claiming, At
  <1>8. Check(r) => BodyInv'
    BY <1>4, <1>5 DEF Check, Steps, Statuses, Claiming, Working, At
  <1>9. ASSUME At(r, "insert") \/ At(r, "replace"), Answer(r, "accepted", TRUE),
               UNCHANGED <<log, request, lapsed>>,
               keys[Item(r).id] = NoKey \/ Item(r).id \in lapsed,
               keys' = [keys EXCEPT ![Item(r).id] = LiveKey(Item(r))]
        PROVE  BodyInv'
    <2>1. call[r].at \in Working /\ "accepted" \in Statuses /\ TRUE \in BOOLEAN
      BY <1>9 DEF At, Working, Statuses
    <2>2. /\ Claims(r)' \subseteq Claims(r) \cup {MessageOf(Item(r))}
          /\ \A q \in Requests \ {r} : Claims(q)' \subseteq Claims(q)
      BY <1>9, <2>1, AnswerClaims
    <2>3. QED
      BY <1>3, <1>6, <1>9, <2>1, <2>2 DEF BodyInv
  <1>10. InsertKey(r) => BodyInv'
    <2>1. CASE MoveTo(r, "find") /\ UNCHANGED keys
      BY <1>4, <2>1 DEF InsertKey, Steps, Claiming, At
    <2>2. QED
      BY <1>9, <2>1 DEF InsertKey
  <1>11. FindKey(r) => BodyInv'
    <2>. SUFFICES ASSUME FindKey(r)
                  PROVE  BodyInv'
      OBVIOUS
    <2>1. call[r].at = "find" /\ UNCHANGED <<log, request, keys, lapsed>>
      BY DEF FindKey, At
    <2>2. CASE Abort(r)
      BY <1>4, <2>1, <2>2 DEF Abort, Steps, Claiming
    <2>3. CASE MoveTo(r, "replace") /\ keys[Item(r).id] # NoKey /\ ~ keys[Item(r).id].live
      <3>1. Item(r).id \in Ids
        BY <2>1, CallTypes DEF Working
      <3>2. Item(r).id \in lapsed
        BY <2>3, <3>1 DEF BodyInv, BodyOK
      <3>3. QED
        BY <1>4, <2>1, <2>3, <3>2 DEF Steps, Claiming
    <2>4. ASSUME NEW s \in Statuses, Answer(r, s, FALSE)
          PROVE  BodyInv'
      BY <1>5, <2>1, <2>4 DEF Working
    <2>5. QED
      BY <2>2, <2>3, <2>4 DEF FindKey, Statuses
  <1>12. ReplaceKey(r) => BodyInv'
    <2>1. CASE MoveTo(r, "insert") /\ UNCHANGED keys
      BY <1>4, <2>1 DEF ReplaceKey, Steps, Claiming, At
    <2>2. ReplaceKey(r) => Item(r).id \in lapsed
      BY DEF ReplaceKey, BodyInv, ReplaceLapsed
    <2>3. QED
      BY <1>9, <2>1, <2>2 DEF ReplaceKey
  <1>13. StorageFails(r) => BodyInv'
    <2>. SUFFICES ASSUME StorageFails(r)
                  PROVE  BodyInv'
      OBVIOUS
    <2>1. UNCHANGED <<log, request, lapsed>> /\ MoveTo(r, "failed") /\ "failed" \in Steps
      BY DEF StorageFails, Abort, Steps
    <2>2. CASE UNCHANGED keys
      BY <1>4, <2>1, <2>2 DEF Claiming
    <2>3. CASE /\ At(r, "insert") /\ keys[Item(r).id] = NoKey
               /\ keys' = [keys EXCEPT ![Item(r).id] = LiveKey(Item(r))]
      <3>1. call[r].at \in Working
        BY <2>3 DEF At, Working
      <3>2. \A q \in Requests : Claims(q)' \subseteq Claims(q)
        BY <2>1, <2>3, MoveClaims DEF Claiming, At
      <3>3. QED
        BY <1>2, <1>6, <2>1, <2>3, <3>1, <3>2 DEF BodyInv
    <2>5. CASE /\ At(r, "replace") /\ keys' = [keys EXCEPT ![Item(r).id] = LiveKey(Item(r))]
      <3>1. call[r].at \in Working /\ Item(r).id \in lapsed
        BY <2>5 DEF At, Working, BodyInv, ReplaceLapsed
      <3>2. \A q \in Requests : Claims(q)' \subseteq Claims(q)
        BY <2>1, <2>5, MoveClaims DEF Claiming, At
      <3>3. QED
        BY <1>2, <1>6, <2>1, <2>5, <3>1, <3>2 DEF BodyInv
    <2>4. QED
      BY <2>2, <2>3, <2>5 DEF StorageFails
  <1>14. Publish(r) => BodyInv'
    <2>. SUFFICES ASSUME Publish(r)
                  PROVE  BodyInv'
      OBVIOUS
    <2>1. /\ call[r].at = "publish" /\ MoveTo(r, "answered") /\ "answered" \in Steps
          /\ UNCHANGED <<request, keys, lapsed>>
          /\ Write(request[r].topic, call[r].claimed)
      BY DEF Publish, At, Steps
    <2>2. \A i : Published(i)' = Published(i) \cup {m \in ToSet(call[r].claimed) : m.id = i}
      BY <2>1, CallTypes, PublishTypes
    <2>3. /\ Claims(r) = ToSet(call[r].claimed) /\ Claims(r)' = {}
          /\ \A q \in Requests \ {r} : Claims(q)' = Claims(q)
      BY <2>1, MoveClaims DEF Claiming
    <2>4. ASSUME NEW i \in Ids \ lapsed'
          PROVE  BodyOK(i)'
      <3>1. BodyOK(i) /\ keys'[i] = keys[i]
        BY <2>1, <2>4 DEF BodyInv
      <3>2. \A m \in Published(i)' : keys[i] # NoKey /\ m.hash = keys[i].hash
        BY <2>2, <2>3, <3>1 DEF BodyOK
      <3>3. ASSUME NEW q \in Requests, NEW m \in Claims(q)', m.id = i
            PROVE  Published(i)' = {}
        <4>1. q # r /\ m \in Claims(q)
          BY <2>3, <3>3
        <4>2. \A n \in Claims(r) : n.id # i
          BY <3>1, <3>3, <4>1 DEF BodyOK
        <4>3. Published(i) = {}
          BY <3>1, <3>3, <4>1 DEF BodyOK
        <4>4. QED
          BY <2>2, <2>3, <4>2, <4>3
      <3>4. \A q \in Requests : Claims(q)' \subseteq Claims(q)
        BY <2>3
      <3>5. QED
        BY <3>1, <3>2, <3>3, <3>4 DEF BodyOK
    <2>5. QED
      BY <1>2, <2>1, <2>4 DEF BodyInv
  <1>15. PublishFails(r) => BodyInv'
    <2>. SUFFICES ASSUME PublishFails(r)
                  PROVE  BodyInv'
      OBVIOUS
    <2>1. PICK n \in 0..Len(call[r].claimed) :
              /\ Write(request[r].topic, SubSeq(call[r].claimed, 1, n))
              /\ lapsed' = lapsed \cup IdsIn(SubSeq(call[r].claimed, 1, n))
      BY DEF PublishFails
    <2>. DEFINE part == SubSeq(call[r].claimed, 1, n)
    <2>2. part \in Seq(Messages)
      BY CallTypes, ToSetPrefix
    <2>3. \A i : Published(i)' = Published(i) \cup {m \in ToSet(part) : m.id = i}
      BY <2>1, <2>2, PublishTypes
    <2>4. /\ call[r].at = "publish" /\ MoveTo(r, "release") /\ "release" \in Steps
          /\ UNCHANGED <<request, keys>>
      BY DEF PublishFails, At, Steps
    <2>5. \A q \in Requests : Claims(q)' \subseteq Claims(q)
      BY <2>4, MoveClaims DEF Claiming
    <2>. HIDE DEF part
    <2>6. lapsed \subseteq lapsed' /\ \A i \in Ids \ lapsed' : \A m \in ToSet(part) : m.id # i
      BY <2>1 DEF IdsIn, part
    <2>7. \A i \in Ids \ lapsed' : Published(i)' = Published(i)
      BY <2>3, <2>6
    <2>8. \A i \in Ids \ lapsed' : BodyOK(i)'
      BY <2>4, <2>5, <2>6, <2>7, BodyKept DEF BodyInv
    <2>9. QED
      BY <1>2, <2>4, <2>6, <2>8 DEF BodyInv
  <1>16. Release(r) => BodyInv'
    <2>. SUFFICES ASSUME Release(r)
                  PROVE  BodyInv'
      OBVIOUS
    <2>1. /\ call[r].at = "release" /\ MoveTo(r, "refused") /\ "refused" \in Steps
          /\ UNCHANGED <<log, request, lapsed>>
          /\ keys' = [i \in Ids |-> IF i \in IdsIn(call[r].claimed) THEN NoKey ELSE keys[i]]
      BY DEF Release, At, Steps
    <2>2. /\ Claims(r) = ToSet(call[r].claimed) /\ Claims(r)' = {}
          /\ \A q \in Requests \ {r} : Claims(q)' = Claims(q)
      BY <2>1, MoveClaims DEF Claiming
    <2>3. \A i : Published(i)' = Published(i)
      BY <2>1 DEF Published
    <2>4. ASSUME NEW i \in Ids \ lapsed', i \notin IdsIn(call[r].claimed)
          PROVE  BodyOK(i)'
      BY <2>1, <2>2, <2>3, <2>4, BodyKept DEF BodyInv
    <2>5. ASSUME NEW i \in Ids \ lapsed', i \in IdsIn(call[r].claimed)
          PROVE  BodyOK(i)'
      <3>1. BodyOK(i)
        BY <2>1, <2>5 DEF BodyInv
      <3>2. PICK m \in Claims(r) : m.id = i
        BY <2>2, <2>5 DEF IdsIn
      <3>3. Published(i)' = {} /\ keys'[i] = NoKey
        BY <2>1, <2>3, <2>5, <3>1, <3>2 DEF BodyOK
      <3>4. \A q \in Requests : \A n \in Claims(q)' : n.id # i
        BY <2>2, <3>1, <3>2 DEF BodyOK
      <3>5. QED
        BY <3>3, <3>4 DEF BodyOK
    <2>6. QED
      BY <1>2, <2>1, <2>4, <2>5 DEF BodyInv
  <1>17. ReleaseFails(r) => BodyInv'
    BY <1>4 DEF ReleaseFails, Steps, Claiming
  <1>18. QED
    BY <1>7, <1>8, <1>10, <1>11, <1>12, <1>13, <1>14, <1>15, <1>16, <1>17 DEF RequestStep

IntakeInv == IntakeShape /\ BodyInv

LEMMA BodyInit ==
    ASSUME NEW workload \in Workloads, IntakeInit(workload),
           log \in [Topics -> Seq(Messages)]
    PROVE  IntakeInv
  <1>1. IntakeShape
    BY ShapeInit
  <1>2. \A i \in Ids \ lapsed : Published(i) = {}
    BY DEF IntakeInit, Published, IdsIn
  <1>3. \A r \in Requests : Claims(r) = {} /\ ~ At(r, "replace")
    BY DEF IntakeInit, Claims, NoCall, At
  <1>4. QED
    BY <1>1, <1>2, <1>3 DEF IntakeInv, BodyInv, BodyOK, ReplaceLapsed, IntakeInit

LEMMA IntakeInvStep ==
    IntakeInv /\ [IntakeNext \/ Downstream]_<<topicVars, intakeVars>> => IntakeInv'
  <1>. SUFFICES ASSUME IntakeInv, [IntakeNext \/ Downstream]_<<topicVars, intakeVars>>
                PROVE  IntakeInv'
    OBVIOUS
  <1>. USE DEF IntakeInv
  <1>1. ASSUME NEW r \in Requests, RequestStep(r)
        PROVE  IntakeInv'
    BY <1>1, RequestShape, RequestBody
  <1>2. ASSUME NEW i \in Ids, ExpireKey(i)
        PROVE  IntakeInv'
    <2>1. /\ UNCHANGED <<log, request, call>> /\ lapsed' = lapsed \cup {i}
          /\ IntakeShape' /\ \A j \in Ids \ {i} : keys'[j] = keys[j]
      BY <1>2, ExpireShape DEF ExpireKey
    <2>2. /\ \A j : Published(j)' = Published(j)
          /\ \A q \in Requests : Claims(q)' = Claims(q)
      BY <2>1 DEF Published, Claims
    <2>3. \A j \in Ids \ lapsed' : BodyOK(j)'
      BY <2>1, <2>2, BodyKept DEF BodyInv
    <2>4. \A q \in Requests : ReplaceLapsed(q)'
      BY <2>1 DEF BodyInv, ReplaceLapsed, At, Item
    <2>5. QED
      BY <2>1, <2>3, <2>4 DEF BodyInv
  <1>3. ASSUME IntakeCrash
        PROVE  IntakeInv'
    <2>1. /\ UNCHANGED <<log, keys, lapsed>> /\ IntakeShape'
          /\ \A q \in Requests : Claims(q)' = {} /\ ~ At(q, "replace")'
      BY <1>3, CrashShape DEF IntakeCrash, IntakeDies, Working, At
    <2>2. \A j : Published(j)' = Published(j)
      BY <2>1 DEF Published
    <2>3. \A j \in Ids \ lapsed' : BodyOK(j)'
      BY <2>1, <2>2, BodyKept DEF BodyInv
    <2>4. QED
      BY <2>1, <2>3 DEF BodyInv, ReplaceLapsed
  <1>4. ASSUME UNCHANGED <<topicVars, intakeVars>> \/ Downstream
        PROVE  IntakeInv'
    <2>1. /\ UNCHANGED <<request, call, keys, lapsed, abandoned>>
          /\ log' \in [Topics -> Seq(Messages)]
          /\ \A t \in Endpoints : log'[t] = log[t]
      BY <1>4 DEF topicVars, intakeVars, Downstream, IntakeShape
    <2>2. IntakeShape'
      BY <2>1 DEF IntakeShape, IntakeTypeOK, InOrder, At
    <2>3. /\ \A j : Published(j)' = Published(j)
          /\ \A q \in Requests : Claims(q)' = Claims(q)
      BY <2>1 DEF Published, Claims, Endpoints
    <2>4. \A j \in Ids \ lapsed' : BodyOK(j)'
      BY <2>1, <2>3, BodyKept DEF BodyInv
    <2>5. \A q \in Requests : ReplaceLapsed(q)'
      BY <2>1 DEF BodyInv, ReplaceLapsed, At, Item
    <2>6. QED
      BY <2>2, <2>4, <2>5, <2>1 DEF BodyInv
  <1>5. QED
    BY <1>1, <1>2, <1>3, <1>4 DEF IntakeNext

\* Two requests with the same event_id and different bodies never both reach
\* Kafka while the key lasts, in whatever order the statements of claim
\* (idempotency.go) and Publish of any number of requests are interleaved.
THEOREM OneBody == IntakeSpec => []OneBodyPerKey
  <1>1. IntakeInv => OneBodyPerKey
    BY DEF IntakeInv, BodyInv, BodyOK, OneBodyPerKey
  <1>. DEFINE Start == (\E workload \in Workloads : IntakeInit(workload))
                          /\ log \in [Topics -> Seq(Messages)]
  <1>3. Start => IntakeInv
    BY BodyInit
  <1>4. IntakeSpec => Start /\ [][IntakeNext \/ Downstream]_<<topicVars, intakeVars>>
    BY DEF IntakeSpec
  <1>. HIDE DEF Start
  <1>5. QED
    BY <1>1, <1>3, <1>4, IntakeInvStep, PTL

-----------------------------------------------------------------------------
(* What was acknowledged is published, claimed or given up                 *)

SettledKey(i) ==
    \/ Published(i) # {}
    \/ i \in abandoned
    \/ \E q \in Requests : i \in {m.id : m \in Claims(q)}

\* A row in event_idempotency_keys speaks for an event that was not lost
\* silently; a batch that is being released has been given up; and every
\* answer but a rejection rests on such a row, or on its former claim.
AckInv ==
    /\ \A i \in Ids : keys[i] # NoKey => SettledKey(i)
    /\ \A r \in Requests : At(r, "release") => \A m \in Claims(r) : m.id \in abandoned
    /\ \A r \in Requests : \A k \in 1..Len(call[r].results) :
         call[r].results[k] # "rejected" => SettledKey(request[r].items[k].id)

\* No message disappears, and the claims request r drops are published or
\* given up.
Settles(r) ==
    /\ OnlyCall(r)
    /\ abandoned \subseteq abandoned'
    /\ \A i \in Ids : Published(i) \subseteq Published(i)'
    /\ \A q \in Requests \ {r} : Claims(q)' = Claims(q)
    /\ \A m \in Claims(r) : \/ m \in Claims(r)'
                            \/ m.id \in abandoned'
                            \/ Published(m.id)' # {}

LEMMA SettledStays ==
    ASSUME NEW r \in Requests, Settles(r), NEW i \in Ids, SettledKey(i)
    PROVE  SettledKey(i)'
  <1>1. CASE Published(i) # {}
    BY <1>1 DEF Settles, SettledKey
  <1>2. CASE i \in abandoned
    BY <1>2 DEF Settles, SettledKey
  <1>3. ASSUME NEW q \in Requests, NEW m \in Claims(q), m.id = i
        PROVE  SettledKey(i)'
    <2>1. CASE q = r
      BY <1>3, <2>1 DEF Settles, SettledKey
    <2>2. CASE q # r
      BY <1>3, <2>2 DEF Settles, SettledKey
    <2>3. QED
      BY <2>1, <2>2
  <1>4. QED
    BY <1>1, <1>2, <1>3 DEF SettledKey

LEMMA AckStep ==
    ASSUME IntakeShape, IntakeShape', AckInv, NEW r \in Requests, Settles(r),
           \A i \in Ids : keys'[i] # NoKey =>
               keys[i] # NoKey \/ i \in abandoned' \/ \E m \in Claims(r)' : m.id = i,
           At(r, "release")' => \A m \in Claims(r)' : m.id \in abandoned',
           \/ call'[r].results = call[r].results
           \/ \E s \in Statuses, i \in Ids :
                /\ call'[r].results = Append(call[r].results, s)
                /\ i = request[r].items[Len(call[r].results) + 1].id
                /\ s # "rejected" => SettledKey(i)'
    PROVE  AckInv'
  <1>1. \A i \in Ids : keys'[i] # NoKey => SettledKey(i)'
    BY SettledStays DEF AckInv, SettledKey
  <1>2. \A q \in Requests : At(q, "release")' => \A m \in Claims(q)' : m.id \in abandoned'
    BY DEF AckInv, Settles, OnlyCall, At
  <1>3. ASSUME NEW q \in Requests, NEW k \in 1..Len(call[q].results),
               call[q].results[k] # "rejected"
        PROVE  SettledKey(request[q].items[k].id)'
    <2>1. /\ request[q].items \in Seq(Items) /\ k \in 1..Len(request[q].items)
          /\ request' = request
      BY CallTypes DEF IntakeShape, InOrder, Settles, OnlyCall
    <2>. DEFINE item == request[q].items[k]
    <2>2. item \in Items
      BY <2>1
    <2>3. item.id \in Ids
      BY <2>2 DEF Items
    <2>4. SettledKey(request[q].items[k].id)
      BY <1>3 DEF AckInv
    <2>5. PICK i \in Ids : i = request[q].items[k].id
      BY <2>3
    <2>6. SettledKey(i)'
      BY <2>4, <2>5, SettledStays
    <2>7. i = request'[q].items[k].id
      BY <2>1, <2>5
    <2>8. QED
      BY <2>6, <2>7
  <1>4. ASSUME NEW q \in Requests, NEW k \in 1..Len(call'[q].results),
               call'[q].results[k] # "rejected"
        PROVE  SettledKey(request[q].items[k].id)'
    <2>1. CASE call'[q].results = call[q].results
      BY <1>3, <1>4, <2>1
    <2>2. CASE q = r /\ call'[r].results # call[r].results
      <3>1. PICK s \in Statuses, i \in Ids :
                /\ call'[r].results = Append(call[r].results, s)
                /\ i = request[r].items[Len(call[r].results) + 1].id
                /\ s # "rejected" => SettledKey(i)'
        BY <2>2
      <3>2. call[r].results \in Seq(Statuses)
        BY CallTypes
      <3>3. CASE k <= Len(call[r].results)
        <4>1. k \in 1..Len(call[r].results) /\ call'[r].results[k] = call[r].results[k]
          BY <1>4, <2>2, <3>1, <3>2, <3>3
        <4>2. QED
          BY <1>3, <1>4, <2>2, <4>1
      <3>4. CASE k > Len(call[r].results)
        <4>1. k = Len(call[r].results) + 1 /\ call'[r].results[k] = s
          BY <1>4, <2>2, <3>1, <3>2, <3>4
        <4>2. request' = request /\ request'[q].items[k].id = i
          BY <2>2, <3>1, <4>1 DEF Settles, OnlyCall
        <4>3. s # "rejected"
          BY <1>4, <2>2, <4>1
        <4>4. QED
          BY <3>1, <4>2, <4>3
      <3>5. QED
        BY <1>4, <3>2, <3>3, <3>4
    <2>3. QED
      BY <2>1, <2>2 DEF Settles, OnlyCall
  <1>5. QED
    BY <1>1, <1>2, <1>4 DEF AckInv

LEMMA RequestAck ==
    ASSUME IntakeShape, AckInv, NEW r \in Requests, RequestStep(r)
    PROVE  AckInv'
  <1>0. IntakeShape'
    BY RequestShape
  <1>1. ASSUME NEW step \in Steps, MoveTo(r, step), request' = request,
               abandoned \subseteq abandoned',
               \A i \in Ids : Published(i) \subseteq Published(i)',
               \A i \in Ids : keys'[i] # NoKey => keys[i] # NoKey \/ i \in abandoned',
               step \in Claiming => call[r].at \in Claiming \cup {"idle"},
               step \notin Claiming =>
                   \A m \in Claims(r) : m.id \in abandoned' \/ Published(m.id)' # {},
               step = "release" => \A m \in Claims(r) : m.id \in abandoned'
        PROVE  AckInv'
    <2>1. /\ \A q \in Requests \ {r} : Claims(q)' = Claims(q)
          /\ step \in Claiming => Claims(r)' = Claims(r)
          /\ Claims(r)' \subseteq Claims(r)
      BY <1>1, MoveClaims
    <2>2. OnlyCall(r) /\ call'[r].results = call[r].results /\ call'[r].at = step
      BY <1>1, MoveFacts
    <2>3. Settles(r)
      BY <1>1, <2>1, <2>2 DEF Settles
    <2>4. At(r, "release")' => \A m \in Claims(r)' : m.id \in abandoned'
      BY <1>1, <2>1, <2>2 DEF At
    <2>5. QED
      BY <1>0, <1>1, <2>2, <2>3, <2>4, AckStep
  <1>2. ASSUME call[r].at \in Working
        PROVE  /\ Item(r).id \in Ids
               /\ Item(r).id = request[r].items[Len(call[r].results) + 1].id
    <2>1. Len(call[r].results) + 1 = call[r].next
      BY <1>2, CallTypes DEF IntakeShape, InOrder
    <2>2. QED
      BY <1>2, <2>1, CallTypes DEF Item
  <1>3. ASSUME NEW s \in Statuses, Answer(r, s, FALSE), call[r].at \in Working,
               UNCHANGED <<log, request, keys, abandoned>>,
               s = "rejected" \/ keys[Item(r).id] # NoKey
        PROVE  AckInv'
    <2>1. /\ OnlyCall(r) /\ call'[r].at \in {"check", "publish"}
          /\ call'[r].results = Append(call[r].results, s)
          /\ \A q \in Requests : Claims(q)' = Claims(q)
      BY <1>3, AnswerFacts, AnswerClaims
    <2>2. Settles(r)
      BY <1>3, <2>1 DEF Settles, Published
    <2>3. PICK i \in Ids : i = Item(r).id
      BY <1>2, <1>3
    <2>4. s # "rejected" => SettledKey(i)'
      BY <1>3, <2>2, <2>3, SettledStays DEF AckInv
    <2>5. ~ At(r, "release")'
      BY <2>1 DEF At
    <2>6. \E x \in Statuses, y \in Ids :
              /\ call'[r].results = Append(call[r].results, x)
              /\ y = request[r].items[Len(call[r].results) + 1].id
              /\ x # "rejected" => SettledKey(y)'
      BY <1>2, <1>3, <2>1, <2>3, <2>4
    <2>7. QED
      BY <1>0, <1>3, <2>2, <2>5, <2>6, AckStep
  <1>4. ASSUME Answer(r, "accepted", TRUE), call[r].at \in Working,
               UNCHANGED <<log, request, abandoned>>,
               keys' = [keys EXCEPT ![Item(r).id] = LiveKey(Item(r))]
        PROVE  AckInv'
    <2>1. "accepted" \in Statuses /\ TRUE \in BOOLEAN
      BY DEF Statuses
    <2>2. /\ OnlyCall(r) /\ call'[r].at \in {"check", "publish"}
          /\ call'[r].results = Append(call[r].results, "accepted")
          /\ \A q \in Requests \ {r} : Claims(q)' = Claims(q)
          /\ Claims(r)' = Claims(r) \cup {MessageOf(Item(r))}
      BY <1>4, <2>1, AnswerFacts, AnswerClaims
    <2>3. Settles(r)
      BY <1>4, <2>2 DEF Settles, Published
    <2>4. PICK i \in Ids : i = Item(r).id
      BY <1>2, <1>4
    <2>5. \E m \in Claims(r)' : m.id = i
      <3>1. MessageOf(Item(r)) \in Claims(r)' /\ MessageOf(Item(r)).id = i
        BY <2>2, <2>4 DEF MessageOf
      <3>2. QED
        BY <3>1
    <2>6. SettledKey(i)'
      BY <2>5 DEF SettledKey
    <2>7. \A j \in Ids : keys'[j] # NoKey =>
              keys[j] # NoKey \/ j \in abandoned' \/ \E m \in Claims(r)' : m.id = j
      BY <1>4, <2>4, <2>5, KeyTypes
    <2>8. \E x \in Statuses, y \in Ids :
              /\ call'[r].results = Append(call[r].results, x)
              /\ y = request[r].items[Len(call[r].results) + 1].id
              /\ x # "rejected" => SettledKey(y)'
      BY <1>2, <1>4, <2>1, <2>2, <2>4, <2>6
    <2>9. ~ At(r, "release")'
      BY <2>2 DEF At
    <2>10. QED
      BY <1>0, <2>3, <2>7, <2>8, <2>9, AckStep
  <1>5. ASSUME MoveTo(r, "failed"), abandoned \cup {m.id : m \in Claims(r)} \subseteq abandoned',
               UNCHANGED <<log, request>>,
               \A i \in Ids : keys'[i] # NoKey => keys[i] # NoKey \/ i \in abandoned'
        PROVE  AckInv'
    BY <1>1, <1>5 DEF Published, Steps, Claiming
  <1>6. Begin(r) => AckInv'
    BY <1>1 DEF Begin, Published, Steps, Claiming, At
  <1>7. Check(r) => AckInv'
    BY <1>1, <1>3 DEF Check, Published, Steps, Claiming, Working, Statuses, At
  <1>8. InsertKey(r) => AckInv'
    BY <1>1, <1>4 DEF InsertKey, Published, Steps, Claiming, Working, At
  <1>9. FindKey(r) => AckInv'
    <2>. SUFFICES ASSUME FindKey(r)
                  PROVE  AckInv'
      OBVIOUS
    <2>1. call[r].at = "find" /\ UNCHANGED <<log, request, keys>>
      BY DEF FindKey, At
    <2>2. CASE Abort(r)
      BY <1>5, <2>1, <2>2 DEF Abort
    <2>3. CASE MoveTo(r, "replace") /\ UNCHANGED abandoned
      BY <1>1, <2>1, <2>3 DEF Published, Steps, Claiming
    <2>4. ASSUME NEW s \in Statuses, Answer(r, s, FALSE), UNCHANGED abandoned,
                 keys[Item(r).id] # NoKey
          PROVE  AckInv'
      BY <1>3, <2>1, <2>4 DEF Working
    <2>5. QED
      BY <2>2, <2>3, <2>4 DEF FindKey, Statuses
  <1>10. ReplaceKey(r) => AckInv'
    BY <1>1, <1>4 DEF ReplaceKey, Published, Steps, Claiming, Working, At
  <1>11. StorageFails(r) => AckInv'
    <2>. SUFFICES ASSUME StorageFails(r)
                  PROVE  AckInv'
      OBVIOUS
    <2>1. UNCHANGED <<log, request>> /\ MoveTo(r, "failed")
      BY DEF StorageFails, Abort
    <2>2. abandoned \cup {m.id : m \in Claims(r)} \subseteq abandoned'
      BY DEF StorageFails, Abort
    <2>3. \A i \in Ids : keys'[i] # NoKey => keys[i] # NoKey \/ i \in abandoned'
      <3>1. CASE UNCHANGED keys
        BY <3>1
      <3>2. CASE /\ At(r, "insert") \/ At(r, "replace")
                 /\ Item(r).id \in abandoned'
                 /\ keys' = [keys EXCEPT ![Item(r).id] = LiveKey(Item(r))]
        BY <3>2, KeyTypes DEF At, Working
      <3>3. QED
        BY <3>1, <3>2 DEF StorageFails
    <2>4. QED
      BY <1>5, <2>1, <2>2, <2>3
  <1>12. Publish(r) => AckInv'
    <2>. SUFFICES ASSUME Publish(r)
                  PROVE  AckInv'
      OBVIOUS
    <2>1. /\ call[r].at = "publish" /\ MoveTo(r, "answered")
          /\ UNCHANGED <<request, keys, abandoned>>
          /\ Write(request[r].topic, call[r].claimed)
      BY DEF Publish, At
    <2>2. \A i : Published(i)' = Published(i) \cup {m \in ToSet(call[r].claimed) : m.id = i}
      BY <2>1, CallTypes, PublishTypes
    <2>3. Claims(r) = ToSet(call[r].claimed)
      BY <2>1 DEF Claims
    <2>4. ASSUME NEW m \in Claims(r)
          PROVE  Published(m.id)' # {}
      <3>1. PICK i : i = m.id
        OBVIOUS
      <3>2. m \in Published(i)'
        BY <2>2, <2>3, <3>1
      <3>3. QED
        BY <3>1, <3>2
    <2>5. QED
      BY <1>1, <2>1, <2>2, <2>4 DEF Steps, Claiming
  <1>13. PublishFails(r) => AckInv'
    <2>. SUFFICES ASSUME PublishFails(r)
                  PROVE  AckInv'
      OBVIOUS
    <2>1. PICK n \in 0..Len(call[r].claimed) :
              Write(request[r].topic, SubSeq(call[r].claimed, 1, n))
      BY DEF PublishFails
    <2>. DEFINE part == SubSeq(call[r].claimed, 1, n)
    <2>2. part \in Seq(Messages)
      BY CallTypes, ToSetPrefix
    <2>3. \A i : Published(i)' = Published(i) \cup {m \in ToSet(part) : m.id = i}
      BY <2>1, <2>2, PublishTypes
    <2>4. /\ call[r].at = "publish" /\ MoveTo(r, "release") /\ UNCHANGED <<request, keys>>
          /\ abandoned' = abandoned \cup IdsIn(call[r].claimed)
      BY DEF PublishFails, At
    <2>5. \A m \in Claims(r) : m.id \in abandoned'
      BY <2>4 DEF Claims, IdsIn
    <2>. HIDE DEF part
    <2>6. QED
      BY <1>1, <2>3, <2>4, <2>5 DEF Steps, Claiming
  <1>14. Release(r) => AckInv'
    <2>. SUFFICES ASSUME Release(r)
                  PROVE  AckInv'
      OBVIOUS
    <2>1. /\ MoveTo(r, "refused") /\ UNCHANGED <<log, request, abandoned>>
          /\ \A i \in Ids : keys'[i] # NoKey => keys[i] # NoKey
          /\ At(r, "release")
      BY DEF Release
    <2>2. QED
      BY <1>5, <1>1, <2>1 DEF AckInv, Published, Steps, Claiming
  <1>15. ReleaseFails(r) => AckInv'
    BY <1>1 DEF ReleaseFails, AckInv, Published, Steps, Claiming
  <1>16. QED
    BY <1>6, <1>7, <1>8, <1>9, <1>10, <1>11, <1>12, <1>13, <1>14, <1>15 DEF RequestStep

LEMMA AckInvStep ==
    IntakeShape /\ AckInv /\ [IntakeNext \/ Downstream]_<<topicVars, intakeVars>> => AckInv'
  <1>. SUFFICES ASSUME IntakeShape, AckInv,
                       [IntakeNext \/ Downstream]_<<topicVars, intakeVars>>
                PROVE  AckInv'
    OBVIOUS
  <1>1. ASSUME NEW r \in Requests, RequestStep(r)
        PROVE  AckInv'
    BY <1>1, RequestAck
  <1>2. ASSUME UNCHANGED <<request, call, abandoned>>,
               \A t \in Endpoints : log'[t] = log[t],
               \A i \in Ids : keys'[i] # NoKey => keys[i] # NoKey
        PROVE  AckInv'
    <2>1. \A i : Published(i)' = Published(i)
      BY <1>2 DEF Published, Endpoints
    <2>2. \A q \in Requests : Claims(q)' = Claims(q)
      BY <1>2 DEF Claims
    <2>3. \A i : SettledKey(i)' <=> SettledKey(i)
      BY <1>2, <2>1, <2>2 DEF SettledKey
    <2>4. \A i \in Ids : keys'[i] # NoKey => SettledKey(i)'
      BY <1>2, <2>3 DEF AckInv
    <2>5. \A q \in Requests : At(q, "release")' => \A m \in Claims(q)' : m.id \in abandoned'
      BY <1>2, <2>2 DEF AckInv, At
    <2>6. ASSUME NEW q \in Requests, NEW k \in 1..Len(call[q].results),
                 call[q].results[k] # "rejected"
          PROVE  SettledKey(request[q].items[k].id)'
      <3>1. PICK i : i = request[q].items[k].id
        OBVIOUS
      <3>2. SettledKey(i)'
        BY <2>3, <2>6, <3>1 DEF AckInv
      <3>3. i = request'[q].items[k].id
        BY <1>2, <3>1
      <3>4. QED
        BY <3>2, <3>3
    <2>7. QED
      BY <1>2, <2>4, <2>5, <2>6 DEF AckInv
  <1>3. ASSUME NEW i \in Ids, ExpireKey(i)
        PROVE  AckInv'
    BY <1>2, <1>3, ExpireShape DEF ExpireKey
  <1>4. ASSUME IntakeCrash
        PROVE  AckInv'
    <2>1. /\ UNCHANGED <<log, request, keys>>
          /\ \A q \in Requests : /\ Claims(q)' = {} /\ ~ At(q, "release")'
                                 /\ call'[q].results = call[q].results
      BY <1>4, CrashShape DEF IntakeCrash, IntakeDies, At
    <2>2. /\ abandoned \subseteq abandoned'
          /\ \A q \in Requests : \A m \in Claims(q) : m.id \in abandoned'
      BY <1>4 DEF IntakeCrash, IntakeDies
    <2>3. \A i : Published(i)' = Published(i)
      BY <2>1 DEF Published
    <2>4. \A i : SettledKey(i) => SettledKey(i)'
      BY <2>2, <2>3 DEF SettledKey
    <2>5. \A i \in Ids : keys'[i] # NoKey => SettledKey(i)'
      BY <2>1, <2>4 DEF AckInv
    <2>6. ASSUME NEW q \in Requests, NEW k \in 1..Len(call[q].results),
                 call[q].results[k] # "rejected"
          PROVE  SettledKey(request[q].items[k].id)'
      <3>1. PICK i : i = request[q].items[k].id
        OBVIOUS
      <3>2. SettledKey(i)'
        BY <2>4, <2>6, <3>1 DEF AckInv
      <3>3. i = request'[q].items[k].id
        BY <2>1, <3>1
      <3>4. QED
        BY <3>2, <3>3
    <2>7. QED
      BY <2>1, <2>5, <2>6 DEF AckInv
  <1>5. ASSUME UNCHANGED <<topicVars, intakeVars>> \/ Downstream
        PROVE  AckInv'
    BY <1>2, <1>5 DEF topicVars, intakeVars, Downstream
  <1>6. QED
    BY <1>1, <1>3, <1>4, <1>5 DEF IntakeNext

\* An event that a client was told is accepted, or a duplicate of an accepted
\* one, reaches Kafka unless a request that failed gave it up: no order of the
\* claims, releases and expirations of claim and release loses it silently.
THEOREM AcknowledgedArrives == IntakeSpec => []AcknowledgedIsPublished
  <1>. DEFINE Start == (\E workload \in Workloads : IntakeInit(workload))
                          /\ log \in [Topics -> Seq(Messages)]
              Inv == IntakeInv /\ AckInv
  <1>1. Inv => AcknowledgedIsPublished
    BY DEF AckInv, AcknowledgedIsPublished, SettledKey
  <1>2. ASSUME NEW workload \in Workloads, IntakeInit(workload),
               log \in [Topics -> Seq(Messages)]
        PROVE  Inv
    <2>1. \A r \in Requests : call[r] = NoCall
      BY <1>2 DEF IntakeInit
    <2>2. \A i \in Ids : keys[i] = NoKey
      BY <1>2 DEF IntakeInit
    <2>3. AckInv
      BY <2>1, <2>2 DEF AckInv, NoCall, At
    <2>4. QED
      BY <1>2, <2>3, BodyInit
  <1>3. Start => Inv
    BY <1>2
  <1>4. Inv /\ [IntakeNext \/ Downstream]_<<topicVars, intakeVars>> => Inv'
    BY IntakeInvStep, AckInvStep DEF IntakeInv
  <1>5. IntakeSpec => Start /\ [][IntakeNext \/ Downstream]_<<topicVars, intakeVars>>
    BY DEF IntakeSpec
  <1>. HIDE DEF Start, Inv
  <1>6. QED
    BY <1>1, <1>3, <1>4, <1>5, PTL

-----------------------------------------------------------------------------
(* The shared writer                                                       *)

\* The place of a consumer's own buffer in a flush.
KindNo(c) == IF c = "ch_events" THEN 1 ELSE IF c = "ch_exposures" THEN 2 ELSE 3

LEMMA KindFacts ==
    /\ KindSet = {"event", "exposure", "decision", "attributed"}
    /\ Len(Kinds) = 4 /\ DOMAIN Kinds = 1..4
    /\ Kinds[1] = "event" /\ Kinds[2] = "exposure" /\ Kinds[3] = "decision"
    /\ Kinds[4] = "attributed"
    /\ \A n \in 1..4 : Kinds[n] \in KindSet
    /\ \A c \in Ingesters : /\ KindOf(c) \in KindSet /\ KindNo(c) \in 1..3
                            /\ KindOf(c) # "attributed"
                            /\ \A n \in 1..4 : Kinds[n] = KindOf(c) <=> n = KindNo(c)
                            /\ SourceOf(c) \in Topics /\ c \in Readers
    /\ \A c, d \in Ingesters : KindOf(c) = KindOf(d) => c = d
  <1>1. /\ Len(Kinds) = 4 /\ DOMAIN Kinds = 1..4
        /\ Kinds[1] = "event" /\ Kinds[2] = "exposure" /\ Kinds[3] = "decision"
        /\ Kinds[4] = "attributed"
    BY DEF Kinds
  <1>2. KindSet = {"event", "exposure", "decision", "attributed"}
    <2>1. KindSet = {Kinds[n] : n \in 1..4}
      BY <1>1 DEF KindSet, ToSet
    <2>2. \A n : n \in 1..4 <=> n = 1 \/ n = 2 \/ n = 3 \/ n = 4
      OBVIOUS
    <2>3. QED
      BY <1>1, <2>1, <2>2
  <1>3. \A n \in 1..4 : n = 1 \/ n = 2 \/ n = 3 \/ n = 4
    OBVIOUS
  <1>4. \A c \in Ingesters : c \in {"ch_events", "ch_exposures", "ch_decisions"}
    BY IngestAssumption
  <1>5. \A c \in Ingesters : SourceOf(c) \in Topics /\ c \in Readers
    BY <1>4 DEF SourceOf, Topics, Readers
  <1>6. \A c \in Ingesters :
            \/ c = "ch_events" /\ KindOf(c) = "event" /\ KindNo(c) = 1
            \/ c = "ch_exposures" /\ KindOf(c) = "exposure" /\ KindNo(c) = 2
            \/ c = "ch_decisions" /\ KindOf(c) = "decision" /\ KindNo(c) = 3
    BY <1>4 DEF KindOf, KindNo
  <1>7. \A n \in 1..4 : Kinds[n] \in KindSet
    BY <1>1, <1>2, <1>3
  <1>8. \A c \in Ingesters : \A n \in 1..4 : Kinds[n] = KindOf(c) <=> n = KindNo(c)
    BY <1>1, <1>3, <1>6
  <1>9. \A c, d \in Ingesters : KindOf(c) = KindOf(d) => c = d
    BY <1>6
  <1>10. \A c \in Ingesters : /\ KindOf(c) \in KindSet /\ KindNo(c) \in 1..3
                              /\ KindOf(c) # "attributed"
    BY <1>2, <1>6
  <1>11. QED
    BY <1>1, <1>2, <1>5, <1>7, <1>8, <1>9, <1>10

IngestTypes ==
    /\ log \in [Topics -> Seq(Messages)]
    /\ offset \in [Readers -> Nat]
    /\ IngestTypeOK

\* Only a flush that has taken a buffer holds rows.
FlushTypes(c) == flush[c] \in [kind : 0..5, rows : Seq(Rows)]

LEMMA IngestFacts ==
    ASSUME IngestTypes, NEW c \in Ingesters
    PROVE  /\ FlushTypes(c) /\ flush[c].kind \in 0..5 /\ flush[c].rows \in Seq(Rows)
           /\ offset[c] \in Nat /\ cursor[c] \in Nat /\ uncommitted[c] \subseteq Nat
           /\ log[SourceOf(c)] \in Seq(Messages)
           /\ \A k \in KindSet : buffer[k] \in Seq(Rows) /\ stored[k] \subseteq Rows
           /\ flush[c].kind \in 1..4 => FlushKind(c) \in KindSet
           /\ \A n \in 1..Len(log[SourceOf(c)]) : log[SourceOf(c)][n].id \in Rows
  <1>1. /\ FlushTypes(c) /\ offset[c] \in Nat /\ cursor[c] \in Nat /\ uncommitted[c] \subseteq Nat
        /\ log[SourceOf(c)] \in Seq(Messages)
        /\ \A k \in KindSet : buffer[k] \in Seq(Rows) /\ stored[k] \subseteq Rows
    BY KindFacts DEF IngestTypes, IngestTypeOK, FlushTypes
  <1>2. flush[c].kind \in 1..4 => FlushKind(c) \in KindSet
    BY KindFacts DEF FlushKind
  <1>3. ASSUME NEW n \in 1..Len(log[SourceOf(c)])
        PROVE  log[SourceOf(c)][n].id \in Rows
    <2>1. log[SourceOf(c)][n] \in Messages
      BY <1>1
    <2>2. QED
      BY <2>1, IngestAssumption DEF Messages
  <1>4. QED
    BY <1>1, <1>2, <1>3 DEF FlushTypes

\* What the rows of a kind may be found in.
Held(k) == stored[k] \cup ToSet(buffer[k]) \cup InFlight(k)

LEMMA HeldBy ==
    ASSUME NEW k
    PROVE  \A x : x \in Held(k) <=>
               \/ x \in stored[k]
               \/ x \in ToSet(buffer[k])
               \/ \E d \in Ingesters : /\ Sending(d) /\ FlushKind(d) = k
                                       /\ x \in ToSet(flush[d].rows)
  BY DEF Held, InFlight

IdOf(c, n) == log[SourceOf(c)][n].id
IsRow(c, n) == IdOf(c, n) \notin Poison

CursorOK(c) == offset[c] <= cursor[c] /\ cursor[c] <= Len(log[SourceOf(c)])

\* A consumer has appended, and not committed, every row since its last
\* commit, and possibly older ones; with a row all later ones.
UncommittedOK(c) ==
    /\ uncommitted[c] \subseteq 1..cursor[c]
    /\ uncommitted[c] # {} => \E n \in uncommitted[c] : \A m \in uncommitted[c] : m <= n
    /\ \A n \in uncommitted[c] : IsRow(c, n)
    /\ \A n \in uncommitted[c], k \in 1..cursor[c] :
         n <= k /\ IsRow(c, k) => k \in uncommitted[c]
    /\ \A k \in 1..cursor[c] : offset[c] < k /\ IsRow(c, k) => k \in uncommitted[c]

CommittedSafe(c) ==
    \A k \in 1..cursor[c] :
        k <= offset[c] /\ IsRow(c, k) => IdOf(c, k) \in stored[KindOf(c)] \cup taken \cup passed

RowsHeld(c) == \A k \in uncommitted[c] : IdOf(c, k) \in Held(KindOf(c))

\* A flush takes the buffers one after the other; rows of another consumer's
\* kind are taken.
SendingOK(c) ==
    Sending(c) => /\ flush[c].kind \in 1..4
                  /\ FlushKind(c) # KindOf(c) => ToSet(flush[c].rows) \subseteq taken

\* When a flush has passed the consumer's own buffer, its rows are stored.
FlushDone(c) ==
    \A k \in uncommitted[c] :
        /\ flush[c].kind > KindNo(c) => IdOf(c, k) \in stored[KindOf(c)] \cup taken
        /\ flush[c].kind = KindNo(c) /\ Sending(c) =>
             IdOf(c, k) \in stored[KindOf(c)] \cup taken \cup ToSet(flush[c].rows)

ConsumerOK(c) ==
    /\ CursorOK(c) /\ UncommittedOK(c) /\ CommittedSafe(c)
    /\ RowsHeld(c) /\ SendingOK(c) /\ FlushDone(c)

IngestInv == IngestTypes /\ \A c \in Ingesters : ConsumerOK(c)

\* Nothing that was written is taken back.
Grows ==
    /\ \A t \in Topics : /\ Len(log[t]) <= Len(log'[t])
                         /\ \A n \in 1..Len(log[t]) : log'[t][n] = log[t][n]
    /\ \A k \in KindSet : stored[k] \subseteq stored'[k]
    /\ taken \subseteq taken' /\ passed \subseteq passed'

HeldGrows == \A k \in KindSet : Held(k) \subseteq Held(k)'

SamePlace(c) ==
    /\ offset'[c] = offset[c] /\ cursor'[c] = cursor[c] /\ uncommitted'[c] = uncommitted[c]

LEMMA IdKept ==
    ASSUME IngestTypes, Grows, NEW c \in Ingesters, CursorOK(c)
    PROVE  \A n \in 1..cursor[c] :
              /\ log'[SourceOf(c)][n].id = log[SourceOf(c)][n].id
              /\ IdOf(c, n)' = IdOf(c, n)
              /\ IsRow(c, n)' <=> IsRow(c, n)
  <1>1. \A n \in 1..cursor[c] : n \in 1..Len(log[SourceOf(c)])
    BY IngestFacts DEF CursorOK
  <1>2. \A n \in 1..cursor[c] : log'[SourceOf(c)][n] = log[SourceOf(c)][n]
    BY <1>1, KindFacts DEF Grows
  <1>3. QED
    BY <1>2 DEF IdOf, IsRow

LEMMA PlaceKept ==
    ASSUME IngestTypes, IngestTypes', Grows, NEW c \in Ingesters, SamePlace(c),
           CursorOK(c), UncommittedOK(c), CommittedSafe(c)
    PROVE  CursorOK(c)' /\ UncommittedOK(c)' /\ CommittedSafe(c)'
  <1>1. \A n \in 1..cursor[c] : IdOf(c, n)' = IdOf(c, n) /\ (IsRow(c, n)' <=> IsRow(c, n))
    BY IdKept
  <1>2. CursorOK(c)'
    BY KindFacts, IngestFacts DEF CursorOK, SamePlace, Grows, IngestTypes
  <1>3. UncommittedOK(c)'
    BY <1>1 DEF UncommittedOK, SamePlace
  <1>4. CommittedSafe(c)'
    BY <1>1, KindFacts DEF CommittedSafe, SamePlace, Grows
  <1>5. QED
    BY <1>2, <1>3, <1>4

LEMMA HeldKept ==
    ASSUME IngestTypes, Grows, HeldGrows, NEW c \in Ingesters, SamePlace(c),
           CursorOK(c), UncommittedOK(c), RowsHeld(c)
    PROVE  RowsHeld(c)'
  <1>1. \A n \in uncommitted[c] : n \in 1..cursor[c]
    BY DEF UncommittedOK
  <1>2. \A n \in uncommitted[c] : IdOf(c, n)' = IdOf(c, n)
    BY <1>1, IdKept
  <1>3. Held(KindOf(c)) \subseteq Held(KindOf(c))'
    BY KindFacts DEF HeldGrows
  <1>4. QED
    BY <1>2, <1>3 DEF RowsHeld, SamePlace

\* Nothing of consumer c changes.
LEMMA Bystander ==
    ASSUME IngestTypes, IngestTypes', Grows, HeldGrows, NEW c \in Ingesters, SamePlace(c),
           ConsumerOK(c), flush'[c] = flush[c]
    PROVE  ConsumerOK(c)'
  <1>1. CursorOK(c)' /\ UncommittedOK(c)' /\ CommittedSafe(c)' /\ RowsHeld(c)'
    BY PlaceKept, HeldKept DEF ConsumerOK
  <1>2. \A n \in uncommitted[c] : IdOf(c, n)' = IdOf(c, n)
    BY IdKept DEF ConsumerOK, UncommittedOK
  <1>3. SendingOK(c)'
    BY DEF ConsumerOK, SendingOK, Sending, FlushKind, Grows
  <1>4. FlushDone(c)'
    BY <1>2, KindFacts DEF ConsumerOK, FlushDone, Sending, SamePlace, Grows
  <1>5. QED
    BY <1>1, <1>3, <1>4 DEF ConsumerOK

\* A flush of consumer c begins, begins again, or is over.
LEMMA Restarted ==
    ASSUME IngestTypes, IngestTypes', Grows, HeldGrows, NEW c \in Ingesters, SamePlace(c),
           ConsumerOK(c), flush'[c].kind \in {0, 1}, flush'[c].rows = <<>>
    PROVE  ConsumerOK(c)'
  <1>1. CursorOK(c)' /\ UncommittedOK(c)' /\ CommittedSafe(c)' /\ RowsHeld(c)'
    BY PlaceKept, HeldKept DEF ConsumerOK
  <1>2. ~ Sending(c)' /\ KindNo(c) \in 1..3
    BY KindFacts DEF Sending
  <1>3. SendingOK(c)' /\ FlushDone(c)'
    BY <1>2 DEF SendingOK, FlushDone
  <1>4. QED
    BY <1>1, <1>3 DEF ConsumerOK

-----------------------------------------------------------------------------
(* What the steps of the writer change                                     *)

\* A step that replaces the flush of c and leaves log and cursors alone.
LEMMA FlushStep ==
    ASSUME IngestTypes, NEW c \in Ingesters, NEW f \in [kind : 0..5, rows : Seq(Rows)],
           flush' = [flush EXCEPT ![c] = f]
    PROVE  /\ flush' \in [Ingesters -> [kind : 0..5, rows : Seq(Rows)]]
           /\ flush'[c] = f
           /\ \A d \in Ingesters \ {c} : /\ flush'[d] = flush[d]
                                         /\ Sending(d)' = Sending(d)
                                         /\ FlushKind(d)' = FlushKind(d)
  BY KindFacts DEF IngestTypes, IngestTypeOK, Sending, FlushKind

LEMMA StartFlushFacts ==
    ASSUME IngestTypes, NEW c \in Ingesters,
           flush' = [flush EXCEPT ![c] = [kind |-> 1, rows |-> <<>>]]
              \/ flush' = [flush EXCEPT ![c] = NoFlush]
    PROVE  /\ flush' \in [Ingesters -> [kind : 0..5, rows : Seq(Rows)]]
           /\ flush'[c].kind \in {0, 1} /\ flush'[c].rows = <<>>
           /\ \A d \in Ingesters \ {c} : /\ flush'[d] = flush[d]
                                         /\ Sending(d)' = Sending(d)
                                         /\ FlushKind(d)' = FlushKind(d)
  <1>1. /\ [kind |-> 1, rows |-> <<>>] \in [kind : 0..5, rows : Seq(Rows)]
        /\ NoFlush \in [kind : 0..5, rows : Seq(Rows)]
        /\ NoFlush.kind = 0 /\ NoFlush.rows = <<>>
    BY DEF NoFlush
  <1>2. PICK f \in [kind : 0..5, rows : Seq(Rows)] :
            flush' = [flush EXCEPT ![c] = f] /\ f.kind \in {0, 1} /\ f.rows = <<>>
    BY <1>1
  <1>3. QED
    BY <1>2, FlushStep

\* Rows only move: from a buffer to a flush, from a flush to ClickHouse or
\* back to the buffer.
LEMMA HeldStep ==
    ASSUME NEW c \in Ingesters,
           \A k \in KindSet : stored[k] \subseteq stored'[k],
           \A d \in Ingesters \ {c} : /\ flush'[d] = flush[d]
                                      /\ Sending(d)' = Sending(d)
                                      /\ FlushKind(d)' = FlushKind(d),
           \A k \in KindSet : ToSet(buffer[k]) \subseteq
               ToSet(buffer'[k]) \cup (IF Sending(c)' /\ FlushKind(c)' = k
                                       THEN ToSet(flush'[c].rows) ELSE {}),
           Sending(c) =>
               \/ ToSet(flush[c].rows) \subseteq stored'[FlushKind(c)]
               \/ ToSet(flush[c].rows) \subseteq ToSet(buffer'[FlushKind(c)])
               \/ flush'[c] = flush[c] /\ Sending(c)' /\ FlushKind(c)' = FlushKind(c)
    PROVE  HeldGrows
  <1>. SUFFICES ASSUME NEW k \in KindSet, NEW x \in Held(k)
                PROVE  x \in Held(k)'
    BY DEF HeldGrows
  <1>1. CASE x \in stored[k]
    BY <1>1 DEF Held
  <1>2. CASE x \in ToSet(buffer[k])
    <2>1. CASE x \in ToSet(buffer'[k])
      BY <2>1 DEF Held
    <2>2. CASE Sending(c)' /\ FlushKind(c)' = k /\ x \in ToSet(flush'[c].rows)
      BY <2>2 DEF Held, InFlight
    <2>3. QED
      BY <1>2, <2>1, <2>2
  <1>3. ASSUME NEW d \in Ingesters, Sending(d), FlushKind(d) = k, x \in ToSet(flush[d].rows)
        PROVE  x \in Held(k)'
    <2>1. CASE d = c
      <3>1. CASE x \in stored'[k]
        BY <3>1 DEF Held
      <3>2. CASE x \in ToSet(buffer'[k])
        BY <3>2 DEF Held
      <3>3. CASE flush'[c] = flush[c] /\ Sending(c)' /\ FlushKind(c)' = FlushKind(c)
        BY <1>3, <2>1, <3>3 DEF Held, InFlight
      <3>4. QED
        BY <1>3, <2>1, <3>1, <3>2, <3>3
    <2>2. CASE d # c
      <3>1. Sending(d)' /\ FlushKind(d)' = k /\ x \in ToSet(flush'[d].rows)
        BY <1>3, <2>2
      <3>2. QED
        BY <3>1 DEF Held, InFlight
    <2>3. QED
      BY <2>1, <2>2
  <1>4. QED
    BY <1>1, <1>2, <1>3, HeldBy

LEMMA SameLog ==
    ASSUME log' = log
    PROVE  \A t \in Topics : /\ Len(log[t]) <= Len(log'[t])
                             /\ \A n \in 1..Len(log[t]) : log'[t][n] = log[t][n]
  OBVIOUS

\* Steps that leave the logs, offsets and cursors alone, seen by the other
\* consumers.
LEMMA WriterStep ==
    ASSUME IngestInv, IngestTypes', NEW c \in Ingesters, Grows, HeldGrows,
           UNCHANGED <<offset, cursor, uncommitted>>,
           \A d \in Ingesters \ {c} : flush'[d] = flush[d],
           SendingOK(c)', FlushDone(c)'
    PROVE  IngestInv'
  <1>1. \A d \in Ingesters : SamePlace(d)
    BY DEF SamePlace
  <1>2. ASSUME NEW d \in Ingesters \ {c}
        PROVE  ConsumerOK(d)'
    BY <1>1, <1>2, Bystander DEF IngestInv
  <1>3. CursorOK(c)' /\ UncommittedOK(c)' /\ CommittedSafe(c)' /\ RowsHeld(c)'
    BY <1>1, PlaceKept, HeldKept DEF IngestInv, ConsumerOK
  <1>4. ConsumerOK(c)'
    BY <1>3 DEF ConsumerOK
  <1>5. QED
    BY <1>2, <1>4 DEF IngestInv

LEMMA TakeBufferStep ==
    ASSUME IngestInv, NEW c \in Ingesters, TakeBuffer(c)
    PROVE  IngestInv'
  <1>. DEFINE k == FlushKind(c)
              f == IF buffer[k] = <<>> THEN [kind |-> flush[c].kind + 1, rows |-> <<>>]
                                       ELSE [kind |-> flush[c].kind, rows |-> buffer[k]]
  <1>1. /\ IngestTypes /\ flush[c].kind \in 1..4 /\ flush[c].rows = <<>>
        /\ UNCHANGED <<log, offset, cursor, uncommitted, stored, passed>>
        /\ buffer' = [buffer EXCEPT ![k] = <<>>]
        /\ taken' = IF k = KindOf(c) THEN taken ELSE taken \cup ToSet(buffer[k])
    BY KindFacts DEF IngestInv, TakeBuffer, Sending
  <1>2. k \in KindSet /\ buffer[k] \in Seq(Rows) /\ k = Kinds[flush[c].kind]
    BY <1>1, IngestFacts DEF FlushKind
  <1>3. flush[c] \in [kind : 0..5, rows : Seq(Rows)]
    BY <1>1, IngestFacts DEF FlushTypes
  <1>. HIDE DEF k
  <1>4. /\ f \in [kind : 0..5, rows : Seq(Rows)]
        /\ buffer[k] = <<>> => f.kind = flush[c].kind + 1 /\ f.rows = <<>>
        /\ buffer[k] # <<>> => f.kind = flush[c].kind /\ f.rows = buffer[k]
    BY <1>1, <1>2, <1>3
  <1>5. flush' = [flush EXCEPT ![c] = f]
    BY DEF TakeBuffer, k
  <1>. HIDE DEF f
  <1>6. /\ flush' \in [Ingesters -> [kind : 0..5, rows : Seq(Rows)]]
        /\ flush'[c] = f
        /\ \A d \in Ingesters \ {c} : /\ flush'[d] = flush[d]
                                      /\ Sending(d)' = Sending(d)
                                      /\ FlushKind(d)' = FlushKind(d)
    BY <1>1, <1>4, <1>5, FlushStep
  <1>7. /\ buffer' \in [KindSet -> Seq(Rows)] /\ buffer'[k] = <<>>
        /\ \A j \in KindSet \ {k} : buffer'[j] = buffer[j]
        /\ taken' \subseteq Rows /\ taken \subseteq taken'
    <2>1. buffer \in [KindSet -> Seq(Rows)] /\ taken \subseteq Rows /\ <<>> \in Seq(Rows)
      BY <1>1 DEF IngestTypes, IngestTypeOK
    <2>2. ToSet(buffer[k]) \subseteq Rows
      BY <1>2 DEF ToSet
    <2>3. QED
      BY <1>1, <1>2, <2>1, <2>2
  <1>8. IngestTypes'
    BY <1>1, <1>6, <1>7, KindFacts DEF IngestTypes, IngestTypeOK
  <1>9. Grows
    BY <1>1, <1>7, SameLog DEF Grows
  <1>10. Sending(c)' => FlushKind(c)' = k /\ flush'[c].rows = buffer[k] /\ flush'[c].kind = flush[c].kind
    BY <1>2, <1>4, <1>6 DEF Sending, FlushKind
  <1>11. buffer[k] # <<>> => Sending(c)'
    BY <1>4, <1>6 DEF Sending
  <1>12. HeldGrows
    <2>1. \A j \in KindSet : ToSet(buffer[j]) \subseteq
               ToSet(buffer'[j]) \cup (IF Sending(c)' /\ FlushKind(c)' = j
                                       THEN ToSet(flush'[c].rows) ELSE {})
      <3>1. CASE buffer[k] = <<>>
        BY <1>7, <3>1
      <3>2. CASE buffer[k] # <<>>
        BY <1>7, <1>10, <1>11, <3>2
      <3>3. QED
        BY <3>1, <3>2
    <2>2. ~ Sending(c) /\ \A j \in KindSet : stored[j] \subseteq stored'[j]
      BY <1>1 DEF Sending
    <2>3. QED
      BY <1>6, <2>1, <2>2, HeldStep
  <1>13. SendingOK(c)'
    <2>1. k # KindOf(c) => ToSet(buffer[k]) \subseteq taken'
      BY <1>1
    <2>2. QED
      BY <1>1, <1>10, <2>1 DEF SendingOK
  <1>14. FlushDone(c)'
    <2>. SUFFICES ASSUME NEW n \in uncommitted[c]
                  PROVE  /\ flush'[c].kind > KindNo(c) => IdOf(c, n) \in stored[KindOf(c)] \cup taken'
                         /\ flush'[c].kind = KindNo(c) /\ Sending(c)' =>
                              IdOf(c, n) \in stored[KindOf(c)] \cup taken' \cup ToSet(flush'[c].rows)
      BY <1>1 DEF FlushDone, IdOf
    <2>1. flush[c].kind > KindNo(c) => IdOf(c, n) \in stored[KindOf(c)] \cup taken
      BY DEF IngestInv, ConsumerOK, FlushDone
    <2>2. KindNo(c) \in 1..3 /\ (k = KindOf(c) <=> flush[c].kind = KindNo(c))
      BY <1>1, <1>2, KindFacts
    \* No other consumer sends rows of this kind without their being taken.
    <2>3. k = KindOf(c) => IdOf(c, n) \in stored[k] \cup ToSet(buffer[k]) \cup taken
      <3>. SUFFICES ASSUME k = KindOf(c), NEW d \in Ingesters, Sending(d), FlushKind(d) = k,
                           IdOf(c, n) \in ToSet(flush[d].rows)
                    PROVE  IdOf(c, n) \in taken
        BY HeldBy DEF IngestInv, ConsumerOK, RowsHeld
      <3>1. d # c
        BY <1>1 DEF Sending
      <3>2. FlushKind(d) # KindOf(d)
        BY <3>1, KindFacts
      <3>3. QED
        BY <3>2 DEF IngestInv, ConsumerOK, SendingOK
    <2>4. CASE buffer[k] # <<>>
      BY <1>4, <1>6, <1>7, <2>1, <2>2, <2>3, <2>4
    <2>5. CASE buffer[k] = <<>>
      <3>1. flush'[c].kind = flush[c].kind + 1 /\ ~ Sending(c)'
        BY <1>4, <1>6, <2>5 DEF Sending
      <3>2. k = KindOf(c) => IdOf(c, n) \in stored[k] \cup taken
        BY <2>3, <2>5, ToSetEmpty
      <3>3. flush'[c].kind > KindNo(c) => flush[c].kind > KindNo(c) \/ k = KindOf(c)
        BY <1>1, <2>2, <3>1
      <3>4. QED
        BY <1>7, <2>1, <3>1, <3>2, <3>3
    <2>6. QED
      BY <2>4, <2>5
  <1>15. QED
    BY <1>1, <1>6, <1>8, <1>9, <1>12, <1>13, <1>14, WriterStep

LEMMA SendRowsStep ==
    ASSUME IngestInv, NEW c \in Ingesters, SendRows(c)
    PROVE  IngestInv'
  <1>. DEFINE k == FlushKind(c)
              f == [kind |-> flush[c].kind + 1, rows |-> <<>>]
  <1>1. /\ IngestTypes /\ flush[c].kind \in 1..4 /\ Sending(c)
        /\ UNCHANGED <<log, offset, buffer, cursor, uncommitted, taken, passed>>
        /\ stored' = [stored EXCEPT ![k] = stored[k] \cup ToSet(flush[c].rows)]
        /\ flush' = [flush EXCEPT ![c] = f]
    BY KindFacts DEF IngestInv, IngestTypes, IngestTypeOK, SendRows
  <1>2. k \in KindSet /\ k = Kinds[flush[c].kind] /\ flush[c].rows \in Seq(Rows)
    BY <1>1, IngestFacts DEF FlushKind
  <1>. HIDE DEF k
  <1>3. f \in [kind : 0..5, rows : Seq(Rows)] /\ f.kind = flush[c].kind + 1 /\ f.rows = <<>>
    BY <1>1
  <1>. HIDE DEF f
  <1>4. /\ flush' \in [Ingesters -> [kind : 0..5, rows : Seq(Rows)]]
        /\ flush'[c] = f
        /\ \A d \in Ingesters \ {c} : /\ flush'[d] = flush[d]
                                      /\ Sending(d)' = Sending(d)
                                      /\ FlushKind(d)' = FlushKind(d)
    BY <1>1, <1>3, FlushStep
  <1>5. ToSet(flush[c].rows) \subseteq Rows
    BY <1>2 DEF ToSet
  <1>6. /\ stored' \in [KindSet -> SUBSET Rows]
        /\ stored'[k] = stored[k] \cup ToSet(flush[c].rows)
        /\ \A j \in KindSet : stored[j] \subseteq stored'[j]
    BY <1>1, <1>2, <1>5 DEF IngestTypes, IngestTypeOK
  <1>7. IngestTypes'
    BY <1>1, <1>4, <1>6, KindFacts DEF IngestTypes, IngestTypeOK
  <1>8. Grows
    BY <1>1, <1>6, SameLog DEF Grows
  <1>9. ~ Sending(c)'
    BY <1>3, <1>4 DEF Sending
  <1>10. HeldGrows
    BY <1>1, <1>4, <1>6, HeldStep DEF k
  <1>11. FlushDone(c)'
    <2>. SUFFICES ASSUME NEW n \in uncommitted[c], flush'[c].kind > KindNo(c)
                  PROVE  IdOf(c, n) \in stored'[KindOf(c)] \cup taken
      BY <1>1, <1>9 DEF FlushDone, IdOf
    <2>1. KindNo(c) \in 1..3 /\ (k = KindOf(c) <=> flush[c].kind = KindNo(c)) /\ KindOf(c) \in KindSet
      BY <1>1, <1>2, KindFacts
    <2>2. flush[c].kind > KindNo(c) \/ flush[c].kind = KindNo(c)
      BY <1>1, <1>3, <1>4, <2>1
    <2>3. \/ IdOf(c, n) \in stored[KindOf(c)] \cup taken
          \/ k = KindOf(c) /\ IdOf(c, n) \in ToSet(flush[c].rows)
      BY <1>1, <2>1, <2>2 DEF IngestInv, ConsumerOK, FlushDone
    <2>4. QED
      BY <1>6, <2>1, <2>3
  <1>12. SendingOK(c)'
    BY <1>9 DEF SendingOK
  <1>13. QED
    BY <1>1, <1>4, <1>7, <1>8, <1>10, <1>11, <1>12, WriterStep

LEMMA SendRowsFailsStep ==
    ASSUME IngestInv, NEW c \in Ingesters, SendRowsFails(c)
    PROVE  IngestInv'
  <1>. DEFINE k == FlushKind(c)
              sent == stored[k] \cup ToSet(flush[c].rows)
              back == flush[c].rows \o buffer[k]
  <1>1. /\ IngestTypes /\ flush[c].kind \in 1..4 /\ Sending(c)
        /\ UNCHANGED <<log, offset, cursor, uncommitted, taken, passed>>
        /\ stored' \in {stored, [stored EXCEPT ![k] = sent]}
        /\ buffer' = [buffer EXCEPT ![k] = back]
        /\ flush' = [flush EXCEPT ![c] = [kind |-> 1, rows |-> <<>>]]
    BY KindFacts DEF IngestInv, IngestTypes, IngestTypeOK, SendRowsFails
  <1>2. k \in KindSet /\ flush[c].rows \in Seq(Rows) /\ buffer[k] \in Seq(Rows)
    BY <1>1, IngestFacts
  <1>3. /\ back \in Seq(Rows)
        /\ ToSet(back) = ToSet(flush[c].rows) \cup ToSet(buffer[k])
    BY <1>2, ToSetConcat
  <1>4. ToSet(flush[c].rows) \subseteq Rows
    BY <1>2 DEF ToSet
  <1>. HIDE DEF k, back
  <1>5. /\ stored' \in [KindSet -> SUBSET Rows]
        /\ \A j \in KindSet : stored[j] \subseteq stored'[j]
    <2>1. stored \in [KindSet -> SUBSET Rows] /\ sent \subseteq Rows /\ stored[k] \subseteq sent
      BY <1>1, <1>2, <1>4 DEF IngestTypes, IngestTypeOK
    <2>. HIDE DEF sent
    <2>2. QED
      BY <1>1, <1>2, <2>1
  <1>6. /\ buffer' \in [KindSet -> Seq(Rows)] /\ buffer'[k] = back
        /\ \A j \in KindSet \ {k} : buffer'[j] = buffer[j]
    BY <1>1, <1>2, <1>3 DEF IngestTypes, IngestTypeOK
  <1>7. /\ flush' \in [Ingesters -> [kind : 0..5, rows : Seq(Rows)]]
        /\ flush'[c].kind \in {0, 1} /\ flush'[c].rows = <<>>
        /\ \A d \in Ingesters \ {c} : /\ flush'[d] = flush[d]
                                      /\ Sending(d)' = Sending(d)
                                      /\ FlushKind(d)' = FlushKind(d)
    BY <1>1, StartFlushFacts
  <1>8. IngestTypes'
    BY <1>1, <1>5, <1>6, <1>7, KindFacts DEF IngestTypes, IngestTypeOK
  <1>9. Grows
    BY <1>1, <1>5, SameLog DEF Grows
  <1>10. HeldGrows
    <2>1. ToSet(flush[c].rows) \subseteq ToSet(buffer'[FlushKind(c)])
      BY <1>3, <1>6 DEF k
    <2>2. \A j \in KindSet : ToSet(buffer[j]) \subseteq ToSet(buffer'[j])
      BY <1>3, <1>6
    <2>3. QED
      BY <1>5, <1>7, <2>1, <2>2, HeldStep
  <1>11. SamePlace(c)
    BY <1>1 DEF SamePlace
  <1>12. ConsumerOK(c)'
    BY <1>7, <1>8, <1>9, <1>10, <1>11, Restarted DEF IngestInv
  <1>13. QED
    BY <1>1, <1>7, <1>8, <1>9, <1>10, <1>12, WriterStep DEF ConsumerOK

\* The flush starts at the first buffer, or is given up after a failed commit.
LEMMA RestartStep ==
    ASSUME IngestInv, NEW c \in Ingesters, ~ Sending(c),
           UNCHANGED <<log, offset, buffer, cursor, uncommitted, stored, taken, passed>>,
           flush' = [flush EXCEPT ![c] = [kind |-> 1, rows |-> <<>>]]
              \/ flush' = [flush EXCEPT ![c] = NoFlush]
    PROVE  IngestInv'
  <1>1. /\ flush' \in [Ingesters -> [kind : 0..5, rows : Seq(Rows)]]
        /\ flush'[c].kind \in {0, 1} /\ flush'[c].rows = <<>>
        /\ \A d \in Ingesters \ {c} : /\ flush'[d] = flush[d]
                                      /\ Sending(d)' = Sending(d)
                                      /\ FlushKind(d)' = FlushKind(d)
    BY StartFlushFacts DEF IngestInv
  <1>2. IngestTypes'
    BY <1>1, KindFacts DEF IngestInv, IngestTypes, IngestTypeOK
  <1>3. Grows /\ SamePlace(c)
    BY SameLog DEF Grows, SamePlace
  <1>4. HeldGrows
    BY <1>1, HeldStep
  <1>5. ConsumerOK(c)'
    BY <1>1, <1>2, <1>3, <1>4, Restarted DEF IngestInv
  <1>6. QED
    BY <1>1, <1>2, <1>3, <1>4, <1>5, WriterStep DEF ConsumerOK

\* A consumer that is not sending: between flushes, or after one.
LEMMA NotSending ==
    ASSUME IngestInv, NEW c \in Ingesters, flush[c].kind \notin 1..4
    PROVE  ~ Sending(c)
  BY DEF IngestInv, ConsumerOK, SendingOK

LEMMA TickStep ==
    ASSUME IngestInv, NEW c \in Ingesters, Tick(c)
    PROVE  IngestInv'
  <1>1. ~ Sending(c)
    BY NotSending DEF Tick, Flushing
  <1>2. /\ UNCHANGED <<log, offset, buffer, cursor, uncommitted, stored, taken, passed>>
        /\ flush' = [flush EXCEPT ![c] = [kind |-> 1, rows |-> <<>>]]
    BY DEF Tick, StartFlush
  <1>3. QED
    BY <1>1, <1>2, RestartStep

LEMMA CommitRowsFailsStep ==
    ASSUME IngestInv, NEW c \in Ingesters, CommitRowsFails(c)
    PROVE  IngestInv'
  <1>1. flush[c].kind = 5
    BY KindFacts DEF CommitRowsFails
  <1>2. ~ Sending(c)
    BY <1>1, NotSending
  <1>3. /\ UNCHANGED <<log, offset, buffer, cursor, uncommitted, stored, taken, passed>>
        /\ flush' = [flush EXCEPT ![c] = NoFlush]
    BY DEF CommitRowsFails
  <1>4. QED
    BY <1>2, <1>3, RestartStep

LEMMA CommitRowsStep ==
    ASSUME IngestInv, NEW c \in Ingesters, CommitRows(c)
    PROVE  IngestInv'
  <1>1. /\ IngestTypes /\ flush[c].kind = 5 /\ ~ Sending(c) /\ ConsumerOK(c)
        /\ UNCHANGED <<log, buffer, cursor, stored, taken, passed>>
        /\ offset' = IF uncommitted[c] = {} THEN offset
                                            ELSE [offset EXCEPT ![c] = LastUncommitted(c)]
        /\ uncommitted' = [uncommitted EXCEPT ![c] = {}]
        /\ flush' = [flush EXCEPT ![c] = NoFlush]
    BY NotSending, KindFacts DEF IngestInv, CommitRows
  <1>. DEFINE last == LastUncommitted(c)
  <1>2. uncommitted[c] # {} => /\ last \in uncommitted[c]
                               /\ \A m \in uncommitted[c] : m <= last
                               /\ last \in 1..cursor[c] /\ last \in Nat
    BY <1>1, IngestFacts DEF ConsumerOK, UncommittedOK, LastUncommitted
  <1>. HIDE DEF last
  <1>3. /\ flush' \in [Ingesters -> [kind : 0..5, rows : Seq(Rows)]]
        /\ flush'[c].kind \in {0, 1} /\ flush'[c].rows = <<>>
        /\ \A d \in Ingesters \ {c} : /\ flush'[d] = flush[d]
                                      /\ Sending(d)' = Sending(d)
                                      /\ FlushKind(d)' = FlushKind(d)
    BY <1>1, StartFlushFacts
  <1>4. /\ offset' \in [Readers -> Nat]
        /\ \A d \in Ingesters \ {c} : offset'[d] = offset[d]
        /\ offset'[c] = IF uncommitted[c] = {} THEN offset[c] ELSE last
    BY <1>1, <1>2, KindFacts DEF IngestTypes, last
  <1>5. /\ uncommitted' \in [Ingesters -> SUBSET Nat] /\ uncommitted'[c] = {}
        /\ \A d \in Ingesters \ {c} : uncommitted'[d] = uncommitted[d]
    BY <1>1 DEF IngestTypes, IngestTypeOK
  <1>6. IngestTypes'
    <2>1. log' \in [Topics -> Seq(Messages)]
      BY <1>1 DEF IngestTypes
    <2>2. flush' \in [Ingesters -> [kind : 0..Len(Kinds) + 1, rows : Seq(Rows)]]
      BY <1>3, KindFacts
    <2>3. IngestTypeOK'
      BY <1>1, <1>5, <2>2 DEF IngestTypes, IngestTypeOK
    <2>4. QED
      BY <1>4, <2>1, <2>3 DEF IngestTypes
  <1>7. Grows
    BY <1>1, SameLog DEF Grows
  <1>8. HeldGrows
    BY <1>1, <1>3, HeldStep
  <1>9. ASSUME NEW d \in Ingesters \ {c}
        PROVE  ConsumerOK(d)'
    <2>1. SamePlace(d)
      BY <1>1, <1>4, <1>5 DEF SamePlace
    <2>2. QED
      BY <1>1, <1>3, <1>6, <1>7, <1>8, <2>1, Bystander DEF IngestInv
  <1>10. \A n : /\ IdOf(c, n)' = IdOf(c, n) /\ (IsRow(c, n)' <=> IsRow(c, n))
    BY <1>1 DEF IdOf, IsRow
  <1>11. cursor[c] \in Nat /\ offset[c] \in Nat
    BY <1>1, IngestFacts
  <1>12. CursorOK(c)'
    BY <1>1, <1>2, <1>4, <1>11 DEF ConsumerOK, CursorOK
  \* A row beyond the last uncommitted one would be uncommitted itself.
  <1>13. UncommittedOK(c)'
    <2>1. ASSUME NEW k \in 1..cursor[c], offset'[c] < k, IsRow(c, k)
          PROVE  FALSE
      <3>1. CASE uncommitted[c] = {}
        BY <1>1, <1>4, <2>1, <3>1 DEF ConsumerOK, UncommittedOK
      <3>2. CASE uncommitted[c] # {}
        BY <1>1, <1>2, <1>4, <2>1, <3>2 DEF ConsumerOK, UncommittedOK
      <3>3. QED
        BY <3>1, <3>2
    <2>2. QED
      BY <1>1, <1>5, <1>10, <2>1 DEF UncommittedOK
  \* The flush has passed the consumer's own buffer.
  <1>14. CommittedSafe(c)'
    <2>. SUFFICES ASSUME NEW k \in 1..cursor[c], k <= offset'[c], IsRow(c, k)
                  PROVE  IdOf(c, k) \in stored[KindOf(c)] \cup taken \cup passed
      BY <1>1, <1>10 DEF CommittedSafe
    <2>1. CASE k <= offset[c]
      BY <1>1, <2>1 DEF ConsumerOK, CommittedSafe
    <2>2. CASE offset[c] < k
      <3>1. k \in uncommitted[c] /\ flush[c].kind > KindNo(c)
        BY <1>1, <2>2, KindFacts DEF ConsumerOK, UncommittedOK
      <3>2. QED
        BY <1>1, <3>1 DEF ConsumerOK, FlushDone
    <2>3. QED
      BY <1>11, <2>1, <2>2
  <1>15. RowsHeld(c)' /\ SendingOK(c)' /\ FlushDone(c)'
    BY <1>3, <1>5 DEF RowsHeld, SendingOK, Sending, FlushDone
  <1>16. QED
    BY <1>6, <1>9, <1>12, <1>13, <1>14, <1>15 DEF IngestInv, ConsumerOK

LEMMA TakeMessageStep ==
    ASSUME IngestInv, NEW c \in Ingesters, TakeMessage(c)
    PROVE  IngestInv'
  <1>. DEFINE k == KindOf(c)
              pos == cursor[c] + 1
              row == IdOf(c, pos)
  <1>1. /\ IngestTypes /\ ConsumerOK(c) /\ flush[c].kind = 0 /\ ~ Sending(c)
        /\ UNCHANGED <<log, offset, stored, taken, passed>>
        /\ cursor[c] < Len(log[SourceOf(c)]) /\ row \notin Poison
        /\ buffer' = [buffer EXCEPT ![k] = Append(buffer[k], row)]
        /\ cursor' = [cursor EXCEPT ![c] = pos]
        /\ uncommitted' = [uncommitted EXCEPT ![c] = uncommitted[c] \cup {pos}]
        /\ \/ flush' = [flush EXCEPT ![c] = [kind |-> 1, rows |-> <<>>]]
           \/ flush' = flush
    BY NotSending DEF IngestInv, TakeMessage, Flushing, AppendRow, Position, NextMessage,
                      IdOf, StartFlush
  <1>2. /\ k \in KindSet /\ buffer[k] \in Seq(Rows)
        /\ cursor[c] \in Nat /\ offset[c] \in Nat /\ pos \in Nat
        /\ Len(log[SourceOf(c)]) \in Nat
    BY <1>1, KindFacts, IngestFacts
  <1>3. pos \in 1..Len(log[SourceOf(c)]) /\ row \in Rows
    BY <1>1, <1>2, IngestFacts DEF IdOf
  <1>4. \A n : /\ IdOf(c, n)' = IdOf(c, n) /\ (IsRow(c, n)' <=> IsRow(c, n))
    BY <1>1 DEF IdOf, IsRow
  <1>5. IsRow(c, pos) /\ pos = cursor[c] + 1
    BY <1>1 DEF IsRow
  <1>6. /\ Append(buffer[k], row) \in Seq(Rows)
        /\ ToSet(Append(buffer[k], row)) = ToSet(buffer[k]) \cup {row}
    BY <1>2, <1>3, ToSetAppend
  <1>. HIDE DEF k, row, pos
  <1>7. /\ flush' \in [Ingesters -> [kind : 0..5, rows : Seq(Rows)]]
        /\ flush'[c].kind \in {0, 1} /\ flush'[c].rows = <<>>
        /\ \A d \in Ingesters \ {c} : /\ flush'[d] = flush[d]
                                      /\ Sending(d)' = Sending(d)
                                      /\ FlushKind(d)' = FlushKind(d)
    <2>1. CASE flush' = flush
      BY <1>1, <2>1, KindFacts DEF IngestTypes, IngestTypeOK, Sending, FlushKind
    <2>2. CASE flush' = [flush EXCEPT ![c] = [kind |-> 1, rows |-> <<>>]]
      BY <1>1, <2>2, StartFlushFacts
    <2>3. QED
      BY <1>1, <2>1, <2>2
  <1>8. /\ buffer' \in [KindSet -> Seq(Rows)]
        /\ ToSet(buffer'[k]) = ToSet(buffer[k]) \cup {row}
        /\ \A j \in KindSet : ToSet(buffer[j]) \subseteq ToSet(buffer'[j])
    <2>1. /\ buffer' \in [KindSet -> Seq(Rows)] /\ buffer'[k] = Append(buffer[k], row)
          /\ \A j \in KindSet \ {k} : buffer'[j] = buffer[j]
      BY <1>1, <1>2, <1>6 DEF IngestTypes, IngestTypeOK
    <2>2. QED
      BY <1>6, <2>1
  <1>9. /\ cursor' \in [Ingesters -> Nat] /\ cursor'[c] = pos
        /\ uncommitted' \in [Ingesters -> SUBSET Nat]
        /\ uncommitted'[c] = uncommitted[c] \cup {pos}
        /\ \A d \in Ingesters \ {c} : cursor'[d] = cursor[d] /\ uncommitted'[d] = uncommitted[d]
    <2>1. uncommitted[c] \cup {pos} \subseteq Nat
      BY <1>1, <1>2, IngestFacts
    <2>2. QED
      BY <1>1, <1>2, <2>1 DEF IngestTypes, IngestTypeOK
  <1>10. IngestTypes'
    <2>1. flush' \in [Ingesters -> [kind : 0..Len(Kinds) + 1, rows : Seq(Rows)]]
      BY <1>7, KindFacts
    <2>2. IngestTypeOK'
      BY <1>1, <1>8, <1>9, <2>1 DEF IngestTypes, IngestTypeOK
    <2>3. QED
      BY <1>1, <2>2 DEF IngestTypes
  <1>11. Grows
    BY <1>1, SameLog DEF Grows
  <1>12. HeldGrows
    BY <1>1, <1>7, <1>8, HeldStep
  <1>13. ASSUME NEW d \in Ingesters \ {c}
         PROVE  ConsumerOK(d)'
    <2>1. SamePlace(d)
      BY <1>1, <1>9 DEF SamePlace
    <2>2. QED
      BY <1>1, <1>7, <1>10, <1>11, <1>12, <2>1, Bystander DEF IngestInv
  <1>14. CursorOK(c)'
    BY <1>1, <1>2, <1>3, <1>5, <1>9 DEF ConsumerOK, CursorOK
  <1>15. UncommittedOK(c)'
    <2>1. /\ uncommitted[c] \subseteq 1..cursor[c]
          /\ \A n \in uncommitted[c] : n <= pos /\ IsRow(c, n)
      BY <1>1, <1>2, <1>5 DEF ConsumerOK, UncommittedOK
    <2>2. uncommitted'[c] \subseteq 1..pos /\ \A n \in uncommitted'[c] : IsRow(c, n) /\ n <= pos
      BY <1>2, <1>5, <1>9, <2>1
    <2>3. pos \in uncommitted'[c]
      BY <1>9
    <2>4. ASSUME NEW j \in 1..pos, IsRow(c, j),
                 offset[c] < j \/ \E n \in uncommitted'[c] : n <= j
          PROVE  j \in uncommitted'[c]
      <3>1. CASE j = pos
        BY <2>3, <3>1
      <3>2. CASE j # pos
        <4>1. j \in 1..cursor[c]
          BY <1>2, <1>5, <3>2
        <4>2. \A n \in uncommitted'[c] : n <= j => n \in uncommitted[c]
          BY <1>2, <1>5, <1>9, <4>1
        <4>3. j \in uncommitted[c]
          BY <1>1, <2>4, <4>1, <4>2 DEF ConsumerOK, UncommittedOK
        <4>4. QED
          BY <1>9, <4>3
      <3>3. QED
        BY <3>1, <3>2
    <2>5. QED
      BY <1>1, <1>4, <1>9, <2>2, <2>3, <2>4 DEF UncommittedOK
  <1>16. CommittedSafe(c)'
    <2>1. \A j \in 1..pos : j <= offset[c] => j \in 1..cursor[c]
      BY <1>1, <1>2, <1>5 DEF ConsumerOK, CursorOK
    <2>2. QED
      BY <1>1, <1>4, <1>9, <2>1 DEF ConsumerOK, CommittedSafe
  <1>17. RowsHeld(c)'
    <2>1. Held(k) \subseteq Held(k)' /\ row \in Held(k)'
      BY <1>2, <1>8, <1>12 DEF HeldGrows, Held
    <2>2. \A n \in uncommitted'[c] : IdOf(c, n) \in Held(k)'
      BY <1>1, <1>9, <2>1 DEF ConsumerOK, RowsHeld, k, row
    <2>3. QED
      BY <1>4, <2>2 DEF RowsHeld, k
  <1>18. SendingOK(c)' /\ FlushDone(c)'
    <2>1. ~ Sending(c)' /\ KindNo(c) \in 1..3
      BY <1>7, KindFacts DEF Sending
    <2>2. QED
      BY <1>7, <2>1 DEF SendingOK, FlushDone
  <1>19. QED
    BY <1>10, <1>13, <1>14, <1>15, <1>16, <1>17, <1>18 DEF IngestInv, ConsumerOK

LEMMA TakePoisonStep ==
    ASSUME IngestInv, NEW c \in Ingesters, TakePoison(c)
    PROVE  IngestInv'
  <1>. DEFINE pos == cursor[c] + 1
              rows == {log[SourceOf(c)][k].id : k \in uncommitted[c]}
  <1>1. /\ IngestTypes /\ ConsumerOK(c) /\ flush[c].kind = 0 /\ ~ Sending(c)
        /\ UNCHANGED <<log, buffer, flush, uncommitted, stored, taken>>
        /\ cursor[c] < Len(log[SourceOf(c)]) /\ IdOf(c, pos) \in Poison
        /\ cursor' = [cursor EXCEPT ![c] = pos]
        /\ \/ offset' = [offset EXCEPT ![c] = pos] /\ passed' = passed \cup rows
           \/ offset' = offset /\ passed' = passed
    BY NotSending DEF IngestInv, TakePoison, Flushing, Position, NextMessage, IdOf
  <1>2. /\ cursor[c] \in Nat /\ offset[c] \in Nat /\ pos \in Nat /\ c \in Readers
        /\ Len(log[SourceOf(c)]) \in Nat
    BY <1>1, KindFacts, IngestFacts
  <1>3. pos \in 1..Len(log[SourceOf(c)])
    BY <1>1, <1>2
  <1>4. \A n : /\ IdOf(c, n)' = IdOf(c, n) /\ (IsRow(c, n)' <=> IsRow(c, n))
    BY <1>1 DEF IdOf, IsRow
  <1>5. ~ IsRow(c, pos) /\ pos = cursor[c] + 1
    BY <1>1 DEF IsRow
  <1>6. rows \subseteq Rows
    <2>1. \A n \in uncommitted[c] : n \in 1..Len(log[SourceOf(c)])
      BY <1>1, <1>2 DEF ConsumerOK, UncommittedOK, CursorOK
    <2>2. QED
      BY <1>1, <2>1, IngestFacts
  <1>7. \A n \in uncommitted[c] : IdOf(c, n) \in rows
    BY DEF IdOf
  <1>. HIDE DEF pos, rows
  <1>8. /\ cursor' \in [Ingesters -> Nat] /\ cursor'[c] = pos
        /\ offset' \in [Readers -> Nat] /\ offset'[c] \in {offset[c], pos}
        /\ \A d \in Ingesters \ {c} : cursor'[d] = cursor[d] /\ offset'[d] = offset[d]
        /\ passed' \subseteq Rows /\ passed \subseteq passed'
        /\ offset'[c] # offset[c] => offset'[c] = pos /\ rows \subseteq passed'
    BY <1>1, <1>2, <1>6, KindFacts DEF IngestTypes, IngestTypeOK
  <1>9. IngestTypes'
    BY <1>1, <1>8 DEF IngestTypes, IngestTypeOK
  <1>10. Grows
    BY <1>1, <1>8, SameLog DEF Grows
  <1>11. \A d \in Ingesters : Sending(d)' = Sending(d) /\ FlushKind(d)' = FlushKind(d)
                              /\ flush'[d] = flush[d]
    BY <1>1 DEF Sending, FlushKind
  <1>12. HeldGrows
    BY <1>1, <1>11, HeldStep
  <1>13. ASSUME NEW d \in Ingesters \ {c}
         PROVE  ConsumerOK(d)'
    <2>1. SamePlace(d)
      BY <1>1, <1>8 DEF SamePlace
    <2>2. QED
      BY <1>9, <1>10, <1>11, <1>12, <2>1, Bystander DEF IngestInv
  <1>14. CursorOK(c)'
    BY <1>1, <1>2, <1>3, <1>5, <1>8 DEF ConsumerOK, CursorOK
  <1>15. \A j \in 1..pos : IsRow(c, j) => j \in 1..cursor[c]
    BY <1>2, <1>5
  <1>16. UncommittedOK(c)'
    <2>1. uncommitted[c] \subseteq 1..pos
      BY <1>1, <1>2, <1>5 DEF ConsumerOK, UncommittedOK
    <2>2. \A j \in 1..pos : offset'[c] < j /\ IsRow(c, j) => j \in uncommitted[c]
      BY <1>1, <1>2, <1>5, <1>8, <1>15 DEF ConsumerOK, UncommittedOK
    <2>3. \A n \in uncommitted[c], j \in 1..pos : n <= j /\ IsRow(c, j) => j \in uncommitted[c]
      BY <1>1, <1>15 DEF ConsumerOK, UncommittedOK
    <2>4. /\ uncommitted[c] # {} => \E n \in uncommitted[c] : \A m \in uncommitted[c] : m <= n
          /\ \A n \in uncommitted[c] : IsRow(c, n)
      BY <1>1 DEF ConsumerOK, UncommittedOK
    <2>5. QED
      BY <1>1, <1>4, <1>8, <2>1, <2>2, <2>3, <2>4 DEF UncommittedOK
  \* The poison message commits what is uncommitted: it is passed.
  <1>17. CommittedSafe(c)'
    <2>. SUFFICES ASSUME NEW j \in 1..pos, j <= offset'[c], IsRow(c, j)
                  PROVE  IdOf(c, j) \in stored[KindOf(c)] \cup taken \cup passed'
      BY <1>1, <1>4, <1>8 DEF CommittedSafe
    <2>1. j \in 1..cursor[c]
      BY <1>15
    <2>2. CASE j <= offset[c]
      BY <1>1, <1>8, <2>1, <2>2 DEF ConsumerOK, CommittedSafe
    <2>3. CASE offset[c] < j
      <3>1. j \in uncommitted[c]
        BY <1>1, <2>1, <2>3 DEF ConsumerOK, UncommittedOK
      <3>2. offset'[c] # offset[c]
        BY <1>2, <2>1, <2>3
      <3>3. QED
        BY <1>7, <1>8, <3>1, <3>2
    <2>4. QED
      BY <1>2, <2>2, <2>3
  <1>18. RowsHeld(c)'
    <2>1. Held(KindOf(c)) \subseteq Held(KindOf(c))'
      BY <1>12, KindFacts DEF HeldGrows
    <2>2. QED
      BY <1>1, <1>4, <2>1 DEF ConsumerOK, RowsHeld
  <1>19. SendingOK(c)' /\ FlushDone(c)'
    <2>1. ~ Sending(c)' /\ KindNo(c) \in 1..3 /\ flush'[c].kind = 0
      BY <1>1, <1>11, KindFacts
    <2>2. QED
      BY <2>1 DEF SendingOK, FlushDone
  <1>20. QED
    BY <1>9, <1>13, <1>14, <1>16, <1>17, <1>18, <1>19 DEF IngestInv, ConsumerOK

\* The process dies, after a last flush or without one.
LEMMA DieStep ==
    ASSUME IngestInv, IngestersDie, UNCHANGED <<log, offset>>,
           stored' \in [KindSet -> SUBSET Rows],
           \A k \in KindSet : stored[k] \subseteq stored'[k]
    PROVE  IngestInv'
  <1>1. /\ IngestTypes
        /\ buffer' = [k \in KindSet |-> <<>>] /\ flush' = [c \in Ingesters |-> NoFlush]
        /\ cursor' = [c \in Ingesters |-> offset[c]]
        /\ uncommitted' = [c \in Ingesters |-> {}]
        /\ UNCHANGED <<taken, passed>>
    BY DEF IngestInv, IngestersDie
  <1>2. NoFlush \in [kind : 0..5, rows : Seq(Rows)] /\ NoFlush.rows = <<>> /\ NoFlush.kind = 0
    BY DEF NoFlush
  <1>3. \A c \in Ingesters : offset[c] \in Nat /\ offset'[c] = offset[c]
    BY <1>1, IngestFacts
  <1>4. IngestTypes'
    <2>1. /\ buffer' \in [KindSet -> Seq(Rows)]
          /\ flush' \in [Ingesters -> [kind : 0..Len(Kinds) + 1, rows : Seq(Rows)]]
      BY <1>1, <1>2, KindFacts
    <2>2. /\ cursor' \in [Ingesters -> Nat] /\ uncommitted' \in [Ingesters -> SUBSET Nat]
      BY <1>1, <1>3
    <2>3. QED
      BY <1>1, <2>1, <2>2 DEF IngestTypes, IngestTypeOK
  <1>5. ASSUME NEW c \in Ingesters
        PROVE  ConsumerOK(c)'
    <2>1. /\ cursor'[c] = offset[c] /\ uncommitted'[c] = {} /\ flush'[c] = NoFlush
          /\ offset[c] \in Nat
      BY <1>1, <1>3
    <2>2. \A n : /\ IdOf(c, n)' = IdOf(c, n) /\ (IsRow(c, n)' <=> IsRow(c, n))
      BY DEF IdOf, IsRow
    <2>3. offset[c] <= cursor[c] /\ cursor[c] <= Len(log[SourceOf(c)])
      BY DEF IngestInv, ConsumerOK, CursorOK
    <2>4. CursorOK(c)'
      BY <1>1, <2>1, <2>3, IngestFacts DEF CursorOK
    <2>5. UncommittedOK(c)'
      BY <2>1 DEF UncommittedOK
    <2>6. CommittedSafe(c)'
      <3>1. \A n \in 1..offset[c] : n \in 1..cursor[c]
        BY <1>1, <2>1, <2>3, IngestFacts
      <3>2. QED
        BY <1>1, <2>1, <2>2, <3>1, KindFacts DEF IngestInv, ConsumerOK, CommittedSafe
    <2>7. RowsHeld(c)' /\ SendingOK(c)' /\ FlushDone(c)'
      BY <1>2, <2>1 DEF RowsHeld, SendingOK, Sending, FlushDone
    <2>8. QED
      BY <2>4, <2>5, <2>6, <2>7 DEF ConsumerOK
  <1>6. QED
    BY <1>4, <1>5 DEF IngestInv

LEMMA ShutdownStep ==
    ASSUME IngestInv, Shutdown
    PROVE  IngestInv'
  <1>1. PICK n \in 0..Len(Kinds) :
            stored' = [k \in KindSet |->
                         IF k \in {Kinds[i] : i \in 1..n}
                         THEN stored[k] \cup ToSet(buffer[k]) \cup InFlight(k)
                         ELSE stored[k]]
    BY DEF Shutdown
  <1>2. /\ stored \in [KindSet -> SUBSET Rows] /\ buffer \in [KindSet -> Seq(Rows)]
        /\ \A c \in Ingesters : flush[c].rows \in Seq(Rows)
    BY IngestFacts DEF IngestInv, IngestTypes, IngestTypeOK
  <1>3. \A k \in KindSet : ToSet(buffer[k]) \subseteq Rows
    BY <1>2 DEF ToSet
  <1>4. \A k \in KindSet : InFlight(k) \subseteq Rows
    <2>1. \A c \in Ingesters : ToSet(flush[c].rows) \subseteq Rows
      BY <1>2 DEF ToSet
    <2>2. QED
      BY <2>1 DEF InFlight
  <1>5. \A k \in KindSet : stored'[k] \subseteq Rows /\ stored[k] \subseteq stored'[k]
    BY <1>1, <1>2, <1>3, <1>4
  <1>6. stored' \in [KindSet -> SUBSET Rows]
    BY <1>1, <1>5
  <1>7. QED
    BY <1>5, <1>6, DieStep DEF Shutdown

LEMMA ArrivalsStep ==
    ASSUME IngestInv, Arrivals
    PROVE  IngestInv'
  <1>1. IngestTypes /\ UNCHANGED <<flush, cursor, uncommitted, stored, taken, passed>>
    BY DEF IngestInv, Arrivals
  <1>2. PICK rows \in Seq(Rows) :
            buffer' = [buffer EXCEPT !["attributed"] = buffer["attributed"] \o rows]
    BY DEF Arrivals
  <1>3. /\ buffer' \in [KindSet -> Seq(Rows)]
        /\ \A k \in KindSet : ToSet(buffer[k]) \subseteq ToSet(buffer'[k])
    <2>1. /\ buffer \in [KindSet -> Seq(Rows)] /\ "attributed" \in KindSet
          /\ buffer["attributed"] \in Seq(Rows)
      BY <1>1, KindFacts DEF IngestTypes, IngestTypeOK
    <2>2. /\ buffer["attributed"] \o rows \in Seq(Rows)
          /\ ToSet(buffer["attributed"]) \subseteq ToSet(buffer["attributed"] \o rows)
      BY <2>1, ToSetConcat
    <2>3. QED
      BY <1>2, <2>1, <2>2
  <1>4. Grows
    <2>1. ASSUME NEW t \in Topics
          PROVE  /\ Len(log[t]) <= Len(log'[t])
                 /\ \A n \in 1..Len(log[t]) : log'[t][n] = log[t][n]
      <3>1. PICK msgs \in Seq(Messages) : log'[t] = log[t] \o msgs
        BY DEF Arrivals
      <3>2. log[t] \in Seq(Messages)
        BY <1>1 DEF IngestTypes
      <3>3. QED
        BY <3>1, <3>2
    <2>2. QED
      BY <1>1, <2>1 DEF Grows
  <1>5. IngestTypes'
    BY <1>1, <1>3 DEF Arrivals, IngestTypes, IngestTypeOK
  <1>6. HeldGrows
    <2>1. \A k : InFlight(k)' = InFlight(k)
      BY <1>1 DEF InFlight, Sending, FlushKind
    <2>2. QED
      BY <1>1, <1>3, <2>1 DEF HeldGrows, Held
  <1>7. ASSUME NEW c \in Ingesters
        PROVE  ConsumerOK(c)'
    <2>1. SamePlace(c)
      BY <1>1 DEF SamePlace, Arrivals
    <2>2. QED
      BY <1>1, <1>4, <1>5, <1>6, <2>1, Bystander DEF IngestInv
  <1>8. QED
    BY <1>5, <1>7 DEF IngestInv

LEMMA IngestInit0 ==
    ASSUME log \in [Topics -> Seq(Messages)], offset = [c \in Readers |-> 0], IngestInit
    PROVE  IngestInv
  <1>1. NoFlush \in [kind : 0..5, rows : Seq(Rows)] /\ NoFlush.rows = <<>> /\ NoFlush.kind = 0
    BY DEF NoFlush
  <1>2. \A c \in Ingesters : offset[c] = 0
    BY KindFacts
  <1>3. IngestTypes
    <2>1. /\ buffer \in [KindSet -> Seq(Rows)]
          /\ flush \in [Ingesters -> [kind : 0..Len(Kinds) + 1, rows : Seq(Rows)]]
      BY <1>1, KindFacts DEF IngestInit
    <2>2. /\ cursor \in [Ingesters -> Nat] /\ uncommitted \in [Ingesters -> SUBSET Nat]
      BY <1>2 DEF IngestInit
    <2>3. QED
      BY <2>1, <2>2 DEF IngestInit, IngestTypes, IngestTypeOK
  <1>4. ASSUME NEW c \in Ingesters
        PROVE  ConsumerOK(c)
    <2>1. /\ offset[c] = 0 /\ cursor[c] = 0 /\ uncommitted[c] = {} /\ flush[c] = NoFlush
          /\ Len(log[SourceOf(c)]) \in Nat
      BY <1>2, <1>3, IngestFacts DEF IngestInit
    <2>2. QED
      BY <1>1, <2>1 DEF ConsumerOK, CursorOK, UncommittedOK, CommittedSafe, RowsHeld,
                        SendingOK, Sending, FlushDone
  <1>5. QED
    BY <1>3, <1>4 DEF IngestInv

LEMMA IngestInvStep ==
    IngestInv /\ [IngestNext \/ Arrivals]_<<topicVars, ingestVars>> => IngestInv'
  <1>. SUFFICES ASSUME IngestInv, [IngestNext \/ Arrivals]_<<topicVars, ingestVars>>
                PROVE  IngestInv'
    OBVIOUS
  <1>1. ASSUME NEW c \in Ingesters, IngestStep(c)
        PROVE  IngestInv'
    BY <1>1, TakeMessageStep, TakePoisonStep, TickStep, TakeBufferStep, SendRowsStep,
       SendRowsFailsStep, CommitRowsStep, CommitRowsFailsStep DEF IngestStep
  <1>2. ASSUME IngestCrash
        PROVE  IngestInv'
    BY <1>2, DieStep DEF IngestCrash, IngestInv, IngestTypes, IngestTypeOK
  <1>3. ASSUME UNCHANGED <<topicVars, ingestVars>>
        PROVE  IngestInv'
    <2>1. UNCHANGED <<log, offset, buffer, flush, cursor, uncommitted, stored, taken, passed>>
      BY <1>3 DEF topicVars, ingestVars
    <2>2. IngestTypes' /\ Grows
      BY <2>1, SameLog DEF IngestInv, IngestTypes, IngestTypeOK, Grows
    <2>3. HeldGrows
      BY <2>1 DEF HeldGrows, Held, InFlight, Sending, FlushKind
    <2>4. \A c \in Ingesters : ConsumerOK(c)'
      BY <2>1, <2>2, <2>3, Bystander DEF IngestInv, SamePlace
    <2>5. QED
      BY <2>2, <2>4 DEF IngestInv
  <1>4. QED
    BY <1>1, <1>2, <1>3, ShutdownStep, ArrivalsStep DEF IngestNext

\* No row of the three ClickHouse consumers is lost, however the flushes of
\* the shared writer fail and overlap and whenever the process dies, except
\* by the two ways out that RowsKept names (Writer.Flush of another consumer,
\* the commit of a later poison message).
THEOREM RowsStay == IngestSpec => []RowsKept
  <1>1. IngestInv => RowsKept
    <2>. SUFFICES ASSUME IngestInv, NEW c \in Ingesters
                  PROVE  /\ RowsUpTo(c, offset[c]) \subseteq stored[KindOf(c)] \cup taken \cup passed
                         /\ RowsUpTo(c, cursor[c]) \ RowsUpTo(c, offset[c])
                              \subseteq stored[KindOf(c)] \cup ToSet(buffer[KindOf(c)]) \cup InFlight(KindOf(c))
      BY DEF RowsKept
    <2>1. offset[c] \in Nat /\ cursor[c] \in Nat /\ offset[c] <= cursor[c] /\ ConsumerOK(c)
      BY IngestFacts DEF IngestInv, ConsumerOK, CursorOK
    <2>2. ASSUME NEW n \in 1..offset[c], IsRow(c, n)
          PROVE  IdOf(c, n) \in stored[KindOf(c)] \cup taken \cup passed
      <3>1. n \in 1..cursor[c] /\ n <= offset[c]
        BY <2>1
      <3>2. QED
        BY <2>1, <2>2, <3>1 DEF ConsumerOK, CommittedSafe
    <2>3. ASSUME NEW n \in 1..cursor[c], n \notin 1..offset[c], IsRow(c, n)
          PROVE  IdOf(c, n) \in Held(KindOf(c))
      <3>1. offset[c] < n
        BY <2>1, <2>3
      <3>2. n \in uncommitted[c]
        BY <2>1, <2>3, <3>1 DEF ConsumerOK, UncommittedOK
      <3>3. QED
        BY <2>1, <3>2 DEF ConsumerOK, RowsHeld
    <2>4. QED
      BY <2>2, <2>3 DEF RowsUpTo, IsRow, IdOf, Held
  <1>2. IngestSpec => IngestInv /\ [][IngestNext \/ Arrivals]_<<topicVars, ingestVars>>
    BY IngestInit0 DEF IngestSpec
  <1>3. QED
    BY <1>1, <1>2, IngestInvStep, PTL

-----------------------------------------------------------------------------
(* Where the rows come from                                                *)

\* The rows of a kind that wait in its buffer or that a flush holds.
Loose(k) == ToSet(buffer[k]) \cup InFlight(k)

\* A consumer puts nothing into the writer but what it reads.
RowsFromTopics ==
    \A c \in Ingesters : Loose(KindOf(c)) \subseteq IdsIn(log[SourceOf(c)])

\* What a step may do with rows: store those it holds, take messages of its own
\* topic, and never revoke what it has put on record.
StoresOnly == \A k \in KindSet : /\ stored[k] \subseteq stored'[k]
                                 /\ stored'[k] \subseteq stored[k] \cup Loose(k)
TakesOwn == \A c \in Ingesters :
                Loose(KindOf(c))' \subseteq Loose(KindOf(c)) \cup IdsIn(log[SourceOf(c)])
RowsMove ==
    /\ StoresOnly /\ TakesOwn
    /\ taken \subseteq taken' /\ passed \subseteq passed'

\* One consumer acts, S is what it adds to a buffer.
LEMMA LooseStep ==
    ASSUME NEW c \in Ingesters, \A d \in Ingesters \ {c} : flush'[d] = flush[d],
           NEW k, NEW S, ToSet(buffer'[k]) \subseteq Loose(k) \cup S,
           Sending(c)' /\ FlushKind(c)' = k => ToSet(flush'[c].rows) \subseteq Loose(k)
    PROVE  Loose(k)' \subseteq Loose(k) \cup S
  <1>. SUFFICES ASSUME NEW x \in InFlight(k)'
                PROVE  x \in Loose(k)
    BY DEF Loose
  <1>1. PICK d \in Ingesters : Sending(d)' /\ FlushKind(d)' = k /\ x \in ToSet(flush'[d].rows)
    BY DEF InFlight
  <1>2. CASE d = c
    BY <1>1, <1>2
  <1>3. CASE d # c
    <2>1. Sending(d) /\ FlushKind(d) = k /\ x \in ToSet(flush[d].rows)
      BY <1>1, <1>3 DEF Sending, FlushKind
    <2>2. QED
      BY <2>1 DEF Loose, InFlight
  <1>4. QED
    BY <1>2, <1>3

\* The rows a consumer sends are loose rows of the kind it sends.
LEMMA SentAreLoose ==
    ASSUME NEW c \in Ingesters, Sending(c)
    PROVE  ToSet(flush[c].rows) \subseteq Loose(FlushKind(c))
  BY DEF Loose, InFlight

LEMMA StoredStays ==
    ASSUME UNCHANGED stored
    PROVE  StoresOnly
  BY DEF StoresOnly

LEMMA TakeMessageMoves ==
    ASSUME IngestInv, NEW c \in Ingesters, TakeMessage(c)
    PROVE  RowsMove
  <1>1. /\ IngestTypes /\ KindOf(c) \in KindSet /\ cursor[c] \in Nat
        /\ log[SourceOf(c)] \in Seq(Messages) /\ flush[c] \in [kind : 0..5, rows : Seq(Rows)]
        /\ ~ Sending(c)
    BY KindFacts, IngestFacts, NotSending DEF IngestInv, FlushTypes, TakeMessage, Flushing
  <1>. DEFINE i == NextMessage(c).id
  <1>2. /\ buffer' = [buffer EXCEPT ![KindOf(c)] = Append(@, i)]
        /\ cursor[c] < Len(log[SourceOf(c)])
        /\ UNCHANGED <<log, stored, taken, passed>>
    BY DEF TakeMessage, AppendRow
  <1>3. i \in IdsIn(log[SourceOf(c)]) /\ i \in Rows
    <2>1. cursor[c] + 1 \in 1..Len(log[SourceOf(c)])
      BY <1>1, <1>2
    <2>2. QED
      BY <1>1, <2>1, IngestFacts DEF IdsIn, ToSet, NextMessage, Position
  <1>. HIDE DEF i
  <1>4. \A d \in Ingesters : buffer[KindOf(d)] \in Seq(Rows) /\ KindOf(d) \in KindSet
    BY <1>1, KindFacts DEF IngestTypes, IngestTypeOK
  <1>5. ToSet(Append(buffer[KindOf(c)], i)) \subseteq ToSet(buffer[KindOf(c)]) \cup {i}
    BY <1>3, <1>4, ToSetAppend
  <1>6. ~ Sending(c)' /\ \A d \in Ingesters \ {c} : flush'[d] = flush[d]
    <2>1. \/ flush' = flush
          \/ flush' = [flush EXCEPT ![c] = [kind |-> 1, rows |-> <<>>]]
      BY DEF TakeMessage, StartFlush
    <2>2. flush' = flush \/ (flush'[c].rows = <<>> /\ \A d \in Ingesters \ {c} : flush'[d] = flush[d])
      BY <1>1, <2>1, StartFlushFacts
    <2>3. QED
      BY <1>1, <2>2 DEF Sending
  <1>7. ASSUME NEW d \in Ingesters
        PROVE  Loose(KindOf(d))' \subseteq Loose(KindOf(d)) \cup IdsIn(log[SourceOf(d)])
    <2>1. CASE d = c
      <3>1. buffer'[KindOf(c)] = Append(buffer[KindOf(c)], i)
        BY <1>1, <1>2 DEF IngestTypes, IngestTypeOK
      <3>2. ToSet(buffer'[KindOf(c)]) \subseteq Loose(KindOf(c)) \cup IdsIn(log[SourceOf(c)])
        BY <1>3, <1>5, <3>1 DEF Loose
      <3>3. QED
        BY <1>6, <2>1, <3>2, LooseStep
    <2>2. CASE d # c
      <3>1. KindOf(d) # KindOf(c)
        BY <2>2, KindFacts
      <3>2. buffer'[KindOf(d)] = buffer[KindOf(d)]
        BY <1>1, <1>2, <1>4, <3>1 DEF IngestTypes, IngestTypeOK
      <3>3. ToSet(buffer'[KindOf(d)]) \subseteq Loose(KindOf(d)) \cup {}
        BY <3>2 DEF Loose
      <3>4. Loose(KindOf(d))' \subseteq Loose(KindOf(d)) \cup {}
        BY <1>6, <3>3, LooseStep
      <3>5. QED
        BY <3>4
    <2>3. QED
      BY <2>1, <2>2
  <1>8. QED
    BY <1>2, <1>7, StoredStays DEF RowsMove, TakesOwn

LEMMA TakeBufferMoves ==
    ASSUME IngestInv, NEW c \in Ingesters, TakeBuffer(c)
    PROVE  RowsMove
  <1>. DEFINE k == FlushKind(c)
              f == IF buffer[k] = <<>> THEN [kind |-> flush[c].kind + 1, rows |-> <<>>]
                                       ELSE [kind |-> flush[c].kind, rows |-> buffer[k]]
  <1>1. /\ IngestTypes /\ flush[c].kind \in 1..4 /\ flush[c].rows = <<>>
        /\ UNCHANGED <<log, stored, passed>>
        /\ buffer' = [buffer EXCEPT ![k] = <<>>]
        /\ taken' = IF k = KindOf(c) THEN taken ELSE taken \cup ToSet(buffer[k])
        /\ flush' = [flush EXCEPT ![c] = f]
    BY KindFacts DEF IngestInv, TakeBuffer, Sending, IngestTypes, IngestTypeOK
  <1>2. k \in KindSet /\ buffer[k] \in Seq(Rows) /\ k = Kinds[flush[c].kind]
    BY <1>1, IngestFacts DEF FlushKind
  <1>. HIDE DEF k
  <1>3. /\ f \in [kind : 0..5, rows : Seq(Rows)]
        /\ f.rows = buffer[k] /\ (f.rows # <<>> => f.kind = flush[c].kind)
    BY <1>1, <1>2
  <1>. HIDE DEF f
  <1>4. flush'[c] = f /\ \A d \in Ingesters \ {c} : flush'[d] = flush[d]
    BY <1>1, <1>3, FlushStep
  <1>5. Sending(c)' => FlushKind(c)' = k
    BY <1>2, <1>3, <1>4 DEF Sending, FlushKind
  <1>6. ASSUME NEW d \in Ingesters
        PROVE  Loose(KindOf(d))' \subseteq Loose(KindOf(d)) \cup {}
    <2>1. KindOf(d) \in KindSet
      BY KindFacts
    <2>2. buffer'[KindOf(d)] = IF KindOf(d) = k THEN <<>> ELSE buffer[KindOf(d)]
      BY <1>1, <2>1 DEF IngestTypes, IngestTypeOK
    <2>3. ToSet(buffer'[KindOf(d)]) \subseteq Loose(KindOf(d)) \cup {}
      BY <2>2, ToSetEmpty DEF Loose
    <2>4. Sending(c)' /\ FlushKind(c)' = KindOf(d) => ToSet(flush'[c].rows) \subseteq Loose(KindOf(d))
      BY <1>3, <1>4, <1>5 DEF Loose
    <2>5. QED
      BY <1>4, <2>3, <2>4, LooseStep
  <1>7. TakesOwn
    BY <1>6 DEF TakesOwn
  <1>8. QED
    BY <1>1, <1>7, StoredStays DEF RowsMove

\* A batch is stored, or fails with its rows put back, stored or not.
LEMMA BatchMoves ==
    ASSUME IngestInv, NEW c \in Ingesters, SendRows(c) \/ SendRowsFails(c)
    PROVE  RowsMove
  <1>. DEFINE k == FlushKind(c)
  <1>1. /\ IngestTypes /\ flush[c].kind \in 1..4 /\ Sending(c)
        /\ UNCHANGED <<taken, passed>>
        /\ stored' \in {stored, [stored EXCEPT ![k] = @ \cup ToSet(flush[c].rows)]}
        /\ buffer' \in {buffer, [buffer EXCEPT ![k] = flush[c].rows \o @]}
    BY KindFacts DEF IngestInv, SendRows, SendRowsFails
  <1>2. k \in KindSet /\ flush[c].rows \in Seq(Rows) /\ buffer[k] \in Seq(Rows)
    BY <1>1, IngestFacts
  <1>3. ToSet(flush[c].rows) \subseteq Loose(k)
    BY <1>1, SentAreLoose
  <1>4. flush'[c].rows = <<>> /\ \A d \in Ingesters \ {c} : flush'[d] = flush[d]
    <2>1. [kind |-> flush[c].kind + 1, rows |-> <<>>] \in [kind : 0..5, rows : Seq(Rows)]
      BY <1>1
    <2>2. CASE SendRows(c)
      <3>1. flush' = [flush EXCEPT ![c] = [kind |-> flush[c].kind + 1, rows |-> <<>>]]
        BY <1>1, <2>2 DEF SendRows, IngestTypes, IngestTypeOK
      <3>2. QED
        BY <1>1, <2>1, <3>1, FlushStep
    <2>3. CASE SendRowsFails(c)
      BY <1>1, <2>3, StartFlushFacts DEF SendRowsFails
    <2>4. QED
      BY <2>2, <2>3
  <1>. HIDE DEF k
  <1>5. StoresOnly
    BY <1>1, <1>2, <1>3 DEF StoresOnly, IngestTypes, IngestTypeOK
  <1>6. ToSet(flush[c].rows \o buffer[k]) = ToSet(flush[c].rows) \cup ToSet(buffer[k])
    BY <1>2, ToSetConcat
  <1>7. ASSUME NEW d \in Ingesters
        PROVE  Loose(KindOf(d))' \subseteq Loose(KindOf(d)) \cup {}
    <2>1. \/ buffer'[KindOf(d)] = buffer[KindOf(d)]
          \/ KindOf(d) = k /\ buffer'[KindOf(d)] = flush[c].rows \o buffer[k]
      BY <1>1, KindFacts DEF IngestTypes, IngestTypeOK
    <2>2. ToSet(buffer'[KindOf(d)]) \subseteq Loose(KindOf(d)) \cup {}
      BY <1>3, <1>6, <2>1 DEF Loose
    <2>3. QED
      BY <1>4, <2>2, LooseStep DEF Sending
  <1>8. TakesOwn
    BY <1>7 DEF TakesOwn
  <1>9. QED
    BY <1>1, <1>5, <1>8 DEF RowsMove

\* A flush begins or is over, a poison message is passed, a commit is made.
LEMMA IdleMoves ==
    ASSUME IngestInv, NEW c \in Ingesters,
           Tick(c) \/ TakePoison(c) \/ CommitRows(c) \/ CommitRowsFails(c)
    PROVE  RowsMove
  <1>1. /\ IngestTypes /\ UNCHANGED <<buffer, stored, taken>> /\ passed \subseteq passed'
        /\ \/ flush' = flush
           \/ flush' = [flush EXCEPT ![c] = [kind |-> 1, rows |-> <<>>]]
           \/ flush' = [flush EXCEPT ![c] = NoFlush]
    BY DEF IngestInv, Tick, TakePoison, CommitRows, CommitRowsFails, StartFlush
  <1>2. CASE flush' = flush
    BY <1>1, <1>2, StoredStays DEF RowsMove, TakesOwn, Loose, InFlight, Sending, FlushKind
  <1>3. CASE flush' # flush
    <2>1. flush'[c].rows = <<>> /\ \A d \in Ingesters \ {c} : flush'[d] = flush[d]
      BY <1>1, <1>3, StartFlushFacts
    <2>2. ASSUME NEW d \in Ingesters
          PROVE  Loose(KindOf(d))' \subseteq Loose(KindOf(d)) \cup {}
      <3>1. ToSet(buffer'[KindOf(d)]) \subseteq Loose(KindOf(d)) \cup {}
        BY <1>1 DEF Loose
      <3>2. QED
        BY <2>1, <3>1, LooseStep DEF Sending
    <2>3. TakesOwn
      BY <2>2 DEF TakesOwn
    <2>4. QED
      BY <1>1, <2>3, StoredStays DEF RowsMove
  <1>4. QED
    BY <1>2, <1>3

\* The process dies, after a last flush or without one.
LEMMA DieMoves ==
    ASSUME IngestInv, IngestersDie, StoresOnly
    PROVE  RowsMove
  <1>1. /\ buffer' = [k \in KindSet |-> <<>>] /\ flush' = [c \in Ingesters |-> NoFlush]
        /\ UNCHANGED <<taken, passed>>
    BY DEF IngestersDie
  <1>2. \A c \in Ingesters : ~ Sending(c)'
    BY <1>1 DEF Sending, NoFlush
  <1>3. \A k \in KindSet : Loose(k)' = {}
    <2>1. \A k : InFlight(k)' = {}
      BY <1>2 DEF InFlight
    <2>2. \A k \in KindSet : ToSet(buffer'[k]) = {}
      BY <1>1, ToSetEmpty
    <2>3. QED
      BY <2>1, <2>2 DEF Loose
  <1>4. QED
    BY <1>1, <1>3, KindFacts DEF RowsMove, TakesOwn

LEMMA RowsMoveStep ==
    ASSUME IngestInv, [IngestNext \/ Arrivals]_<<topicVars, ingestVars>>
    PROVE  RowsMove
  <1>1. ASSUME NEW c \in Ingesters, IngestStep(c)
        PROVE  RowsMove
    BY <1>1, TakeMessageMoves, TakeBufferMoves, BatchMoves, IdleMoves DEF IngestStep
  <1>2. CASE IngestCrash
    BY <1>2, DieMoves, StoredStays DEF IngestCrash
  <1>3. CASE Shutdown
    <2>1. PICK n \in 0..Len(Kinds) :
              stored' = [k \in KindSet |->
                           IF k \in {Kinds[i] : i \in 1..n}
                           THEN stored[k] \cup ToSet(buffer[k]) \cup InFlight(k)
                           ELSE stored[k]]
      BY <1>3 DEF Shutdown
    <2>2. StoresOnly
      BY <2>1 DEF StoresOnly, Loose
    <2>3. QED
      BY <1>3, <2>2, DieMoves DEF Shutdown
  <1>4. CASE Arrivals
    <2>1. UNCHANGED <<flush, stored, taken, passed>>
      BY <1>4 DEF Arrivals
    <2>2. \A c \in Ingesters : buffer'[KindOf(c)] = buffer[KindOf(c)]
      BY <1>4, KindFacts DEF Arrivals, IngestInv, IngestTypes, IngestTypeOK
    <2>3. QED
      BY <2>1, <2>2, StoredStays
         DEF RowsMove, TakesOwn, Loose, InFlight, Sending, FlushKind
  <1>5. CASE UNCHANGED <<topicVars, ingestVars>>
    BY <1>5, StoredStays
       DEF ingestVars, RowsMove, TakesOwn, Loose, InFlight, Sending, FlushKind
  <1>6. QED
    BY <1>1, <1>2, <1>3, <1>4, <1>5 DEF IngestNext

LEMMA TopicsGrow ==
    ASSUME IngestInv, [IngestNext \/ Arrivals]_<<topicVars, ingestVars>>
    PROVE  \A c \in Ingesters : IdsIn(log[SourceOf(c)]) \subseteq IdsIn(log'[SourceOf(c)])
  <1>1. CASE log' = log
    BY <1>1
  <1>2. CASE Arrivals
    <2>. SUFFICES ASSUME NEW c \in Ingesters
                  PROVE  IdsIn(log[SourceOf(c)]) \subseteq IdsIn(log'[SourceOf(c)])
      OBVIOUS
    <2>1. log[SourceOf(c)] \in Seq(Messages) /\ SourceOf(c) \in Topics
      BY KindFacts DEF IngestInv, IngestTypes
    <2>2. PICK msgs \in Seq(Messages) : log'[SourceOf(c)] = log[SourceOf(c)] \o msgs
      BY <1>2, <2>1 DEF Arrivals
    <2>3. ToSet(log[SourceOf(c)]) \subseteq ToSet(log'[SourceOf(c)])
      BY <2>1, <2>2, ToSetConcat
    <2>4. QED
      BY <2>3 DEF IdsIn
  <1>3. QED
    BY <1>1, <1>2 DEF IngestNext, IngestStep, TakeMessage, TakePoison, Tick, TakeBuffer,
       SendRows, SendRowsFails, CommitRows, CommitRowsFails, IngestCrash, Shutdown, topicVars

\* Each buffer, and each flush, holds rows of its own topic only, though one
\* writer serves all kinds and puts back what another consumer has appended.
THEOREM RowsHoldTopics == IngestSpec => []RowsFromTopics
  <1>1. IngestSpec => IngestInv /\ [][IngestNext \/ Arrivals]_<<topicVars, ingestVars>>
    BY IngestInit0 DEF IngestSpec
  <1>2. IngestSpec => RowsFromTopics
    <2>. SUFFICES ASSUME IngestSpec
                  PROVE  RowsFromTopics
      OBVIOUS
    <2>1. buffer = [k \in KindSet |-> <<>>] /\ flush = [c \in Ingesters |-> NoFlush]
      BY DEF IngestSpec, IngestInit
    <2>2. \A k : InFlight(k) = {}
      BY <2>1 DEF InFlight, Sending, NoFlush
    <2>3. QED
      BY <2>1, <2>2, ToSetEmpty, KindFacts DEF RowsFromTopics, Loose
  <1>3. IngestInv /\ RowsFromTopics /\ [IngestNext \/ Arrivals]_<<topicVars, ingestVars>>
            => RowsFromTopics'
    <2>. SUFFICES ASSUME IngestInv, RowsFromTopics,
                         [IngestNext \/ Arrivals]_<<topicVars, ingestVars>>,
                         NEW c \in Ingesters
                  PROVE  Loose(KindOf(c))' \subseteq IdsIn(log'[SourceOf(c)])
      BY DEF RowsFromTopics
    <2>1. Loose(KindOf(c))' \subseteq Loose(KindOf(c)) \cup IdsIn(log[SourceOf(c)])
      BY RowsMoveStep DEF RowsMove, TakesOwn
    <2>2. QED
      BY <2>1, TopicsGrow DEF RowsFromTopics
  <1>4. QED
    BY <1>1, <1>2, <1>3, IngestInvStep, PTL

-----------------------------------------------------------------------------
(* Decisions: what a request has read, and where its answer is             *)

\* Goroutines that did not overlap have stored the parts in the order of
\* store(): the flags are never older than the experiments, and those never
\* older than the revision.
PartsInOrder ==
    /\ \A g \in Storing : \A h \in Storing : g = h
    /\ memory["flags"] >= memory["exps"]
    /\ memory["exps"] >= memory["rev"]
    /\ Storing = {} => memory["flags"] = memory["rev"]
    /\ \A g \in Storing :
          /\ storing[g].revision >= memory["flags"]
          /\ storing[g].at # "flags" => memory["flags"] = storing[g].revision
          /\ storing[g].at = "rev" => memory["exps"] = storing[g].revision

\* A request has read its revision before it reads the rest.
ReadInOrder(r) ==
    /\ answer[r].rev <= memory["rev"]
    /\ answer[r].at \in {"experiment", "evaluate", "answered"} =>
          answer[r].flag >= answer[r].rev
    /\ answer[r].at \in {"evaluate", "answered"} =>
          answer[r].exp = 0 \/ answer[r].exp >= answer[r].rev

ReadsInv == ~ overlapped => PartsInOrder /\ \A r \in Callers : ReadInOrder(r)

\* A decision is in the channel, in Kafka, or on record as dropped; nobody
\* decides once the server has shut down.
AnswersInv ==
    /\ \A r \in Callers : answer[r].at = "answered" =>
          r \in ToSet(channel) \cup IdsIn(log["decisions"]) \cup dropped
    /\ serving # "serving" => \A r \in Callers : answer[r].at \in Finished
    /\ serving = "stopped" => channel = <<>>

DecideTypes == TopicsTypeOK /\ DecideTypeOK

DecideInv == DecideTypes /\ ReadsInv /\ AnswersInv

\* A set of naturals has a least element.
LEMMA LeastOf ==
    ASSUME NEW T, T \subseteq Nat, T # {}
    PROVE  \E k \in T : \A j \in T : k <= j
  <1>. DEFINE R == {p \in Nat \X Nat : p[1] < p[2]}
  <1>1. OpToRel(<, Nat) = R
    BY Zenon DEF OpToRel
  <1>2. IsWellFoundedOn(R, Nat)
    BY <1>1, NatLessThanWellFounded, Zenon
  <1>3. PICK k \in T : \A j \in T : ~ (<<j, k>> \in R)
    <2>. HIDE DEF R
    <2>. QED
      BY <1>2, WFMin
  <1>4. ASSUME NEW j \in T
        PROVE  k <= j
    <2>1. j \in Nat /\ k \in Nat /\ <<j, k>> \in Nat \X Nat
      OBVIOUS
    <2>2. j < k => <<j, k>> \in R
      BY <2>1
    <2>. HIDE DEF R
    <2>3. QED
      BY <1>3, <2>1, <2>2
  <1>5. QED
    BY <1>4

\* The walk over the weights ends at a variant, or outside of them.
LEMMA SelectVariantType ==
    ASSUME NEW exp, NEW pos, exp.weights \in Seq(Nat)
    PROVE  SelectVariant(exp, pos) \in Nat
  <1>. DEFINE matching == {k \in 1..Len(exp.weights) : pos < FoldSeq(+, 0, SubSeq(exp.weights, 1, k))}
              first == CHOOSE k \in matching : \A j \in matching : k <= j
  <1>1. 1..Len(exp.weights) \subseteq Nat
    OBVIOUS
  <1>2. matching \subseteq 1..Len(exp.weights)
    BY Zenon
  <1>3. SelectVariant(exp, pos) = IF pos >= exp.allocation \/ matching = {} THEN 0 ELSE first
    BY Zenon DEF SelectVariant
  <1>. HIDE DEF matching
  <1>4. matching # {} => first \in Nat
    BY <1>1, <1>2, LeastOf
  <1>. HIDE DEF first
  <1>5. QED
    BY <1>3, <1>4

-----------------------------------------------------------------------------

\* What the operators of Reader and Service may rely on.
LEMMA DecideFacts ==
    /\ Callers \subseteq Goroutines /\ Poll \in Goroutines
    /\ Revisions \subseteq Nat /\ 0 \in Revisions
    /\ NoRefresh \in [at : {"idle", "load", "compare", "failed"} \cup Parts, revision : Revisions]
    /\ NoAnswer \in [at : AnswerSteps, rev : Revisions, flag : Revisions,
                     exp : Revisions, variant : Nat]
    /\ ChannelCap \in Nat
  BY DecideAssumption DEF Goroutines, Revisions, NoRefresh, NoAnswer, AnswerSteps

LEMMA VariantType ==
    ASSUME DecideTypeOK, NEW r \in Callers
    PROVE  VariantFor(r) \in Nat
  <1>. DEFINE exp == ExperimentIn(answer[r].exp)
  <1>1. answer[r].exp \in Revisions
    BY DEF DecideTypeOK
  <1>2. exp = NoExperiment \/ exp.weights \in Seq(Nat)
    BY <1>1, DecideAssumption DEF ExperimentIn, Revisions
  <1>3. exp.weights \in Seq(Nat) => SelectVariant(exp, PositionOf[r]) \in Nat
    BY SelectVariantType
  <1>. HIDE DEF exp
  <1>4. (IF exp # NoExperiment /\ Matches(exp.targeting, SubjectOf[r])
         THEN SelectVariant(exp, PositionOf[r]) ELSE 0) \in Nat
    BY <1>2, <1>3
  <1>5. QED
    BY <1>4, Zenon DEF VariantFor, exp

Progresses == [at : {"idle", "load", "compare", "failed"} \cup Parts, revision : Revisions]
Answers == [at : AnswerSteps, rev : Revisions, flag : Revisions, exp : Revisions, variant : Nat]

LEMMA MoveOnTypes ==
    ASSUME DecideTypeOK, NEW r \in Callers, NEW fields \in Answers, MoveOn(r, fields)
    PROVE  answer' \in [Callers -> Answers] /\ storing' \in [Goroutines -> Progresses]
  BY DecideFacts DEF DecideTypeOK, MoveOn, Answers, Progresses

LEMMA RefreshTypes ==
    ASSUME DecideTypeOK, NEW r \in Callers, Refresh(r)
    PROVE  storing' \in [Goroutines -> Progresses]
  <1>1. [at |-> "load", revision |-> 0] \in Progresses
    BY DecideFacts DEF Progresses
  <1>2. QED
    BY <1>1, DecideFacts DEF DecideTypeOK, Refresh, Progresses

\* The fields that the steps of a request set.
LEMMA AnswerFields ==
    ASSUME DecideTypeOK, NEW r \in Callers
    PROVE  /\ answer[r] \in Answers
           /\ memory["flags"] \in Revisions /\ memory["exps"] \in Revisions
           /\ memory["rev"] \in Revisions
           /\ \A s \in AnswerSteps : [answer[r] EXCEPT !.at = s] \in Answers
           /\ \A s \in AnswerSteps, n \in Revisions :
                 /\ [answer[r] EXCEPT !.at = s, !.rev = n] \in Answers
                 /\ [answer[r] EXCEPT !.at = s, !.flag = n] \in Answers
                 /\ [answer[r] EXCEPT !.at = s, !.exp = n] \in Answers
           /\ \A s \in AnswerSteps, n \in Nat :
                 [answer[r] EXCEPT !.at = s, !.variant = n] \in Answers
  BY DEF DecideTypeOK, Answers, Parts

LEMMA RecordType ==
    ASSUME NEW r \in Callers
    PROVE  Record(r) \in Messages /\ Record(r).id = r
  BY DecideAssumption DEF Record, Messages

LEMMA DecideTypesStep ==
    DecideTypes /\ [DecideNext \/ OthersWrite]_<<topicVars, decideVars>> => DecideTypes'
  <1>. SUFFICES ASSUME DecideTypes, [DecideNext \/ OthersWrite]_<<topicVars, decideVars>>
                PROVE  DecideTypes'
    OBVIOUS
  <1>. USE DecideFacts, FaultAssumption
  <1>0. /\ TopicsTypeOK /\ DecideTypeOK
        /\ (faults' = faults \/ Fault) => FaultsTypeOK'
    BY DEF DecideTypes, TopicsTypeOK, FaultsTypeOK, Fault
  <1>a. ASSUME NEW r \in Callers, NEW fields \in Answers, MoveOn(r, fields)
        PROVE  answer' \in [Callers -> Answers] /\ storing' \in [Goroutines -> Progresses]
    BY <1>0, <1>a, MoveOnTypes
  <1>b. ASSUME NEW r \in Callers, Refresh(r), UNCHANGED answer
        PROVE  answer' \in [Callers -> Answers] /\ storing' \in [Goroutines -> Progresses]
    BY <1>0, <1>b, RefreshTypes DEF DecideTypeOK, Answers
  <1>c. ASSUME answer' \in [Callers -> Answers], storing' \in [Goroutines -> Progresses],
               channel' \in Seq(Callers), Len(channel') <= ChannelCap, dropped' \subseteq Callers,
               faults' = faults, UNCHANGED <<log, offset, redisRevision, memory, overlapped, serving>>
        PROVE  DecideTypes'
    BY <1>0, <1>c DEF DecideTypes, TopicsTypeOK, DecideTypeOK, Answers, Progresses
  <1>d. ASSUME answer' \in [Callers -> Answers], storing' \in [Goroutines -> Progresses],
               UNCHANGED <<channel, dropped>>, NoFault, RequestFrame
        PROVE  DecideTypes'
    BY <1>0, <1>c, <1>d DEF DecideTypeOK, NoFault, RequestFrame
  <1>e. ASSUME storing' \in [Goroutines -> Progresses], UNCHANGED <<log, offset, redisRevision,
               answer, channel, dropped, serving>>, faults' = faults \/ Fault,
               memory' \in [Parts -> Revisions], overlapped' \in BOOLEAN
        PROVE  DecideTypes'
    BY <1>0, <1>e DEF DecideTypes, TopicsTypeOK, DecideTypeOK, Progresses
  <1>1. CASE SnapshotWritten
    BY <1>0, <1>1, DecideAssumption
       DEF SnapshotWritten, Revisions, DecideTypes, DecideTypeOK, TopicsTypeOK, FaultsTypeOK, NoFault
  <1>2. CASE StartPoll
    BY <1>0, <1>2, <1>e DEF StartPoll, ReaderFrame, DecideTypeOK, Progresses, NoFault
  <1>3. ASSUME NEW g \in Goroutines, LoadFromRedis(g)
        PROVE  DecideTypes'
    BY <1>0, <1>3, <1>e DEF LoadFromRedis, ReaderFrame, DecideTypeOK, Progresses, NoFault
  <1>4. ASSUME NEW g \in Goroutines, LoadFails(g)
        PROVE  DecideTypes'
    <2>1. \A s \in {"idle", "failed"} : [storing[g] EXCEPT !.at = s] \in Progresses
      BY <1>0 DEF DecideTypeOK, Progresses
    <2>2. PICK s \in {"idle", "failed"} : storing' = [storing EXCEPT ![g].at = s]
      BY <1>4 DEF LoadFails
    <2>3. storing' \in [Goroutines -> Progresses]
      BY <1>0, <2>1, <2>2 DEF DecideTypeOK, Progresses
    <2>4. QED
      BY <1>0, <1>4, <1>e, <2>3 DEF LoadFails, ReaderFrame, DecideTypeOK
  <1>5. ASSUME NEW g \in Goroutines, CompareRevision(g)
        PROVE  DecideTypes'
    <2>1. overlapped' \in BOOLEAN
      BY <1>0, <1>5, Zenon DEF CompareRevision, DecideTypeOK
    <2>2. \A s \in {"idle", "flags"} : [storing[g] EXCEPT !.at = s] \in Progresses
      BY <1>0 DEF DecideTypeOK, Progresses, Parts
    <2>3. PICK s \in {"idle", "flags"} : storing' = [storing EXCEPT ![g].at = s]
      BY <1>5 DEF CompareRevision
    <2>4. storing' \in [Goroutines -> Progresses]
      BY <1>0, <2>2, <2>3 DEF DecideTypeOK, Progresses
    <2>5. NoFault /\ ReaderFrame /\ UNCHANGED memory
      BY <1>5 DEF CompareRevision
    <2>6. QED
      BY <1>0, <1>e, <2>1, <2>4, <2>5 DEF ReaderFrame, DecideTypeOK, NoFault
  <1>6. ASSUME NEW g \in Goroutines, StorePart(g)
        PROVE  DecideTypes'
    BY <1>6 DEF StorePart, ReaderFrame, Parts, Storing, NextPart, DecideTypes, DecideTypeOK,
                TopicsTypeOK, FaultsTypeOK, NoFault
  <1>7. ASSUME NEW r \in Callers, Receive(r)
        PROVE  DecideTypes'
    <2>1. [NoAnswer EXCEPT !.at = "snapshot"] \in Answers
      BY DEF NoAnswer, Answers, AnswerSteps
    <2>2. QED
      BY <1>7, <1>a, <1>d, <2>1 DEF Receive
  <1>8. ASSUME NEW r \in Callers, GetSnapshot(r)
        PROVE  DecideTypes'
    <2>1. answer' \in [Callers -> Answers] /\ storing' \in [Goroutines -> Progresses]
      <3>1. CASE \E fields \in Answers : MoveOn(r, fields)
        BY <1>a, <3>1
      <3>2. CASE Refresh(r) /\ UNCHANGED answer
        BY <1>b, <3>2
      <3>3. QED
        BY <1>0, <1>8, <3>1, <3>2, AnswerFields DEF GetSnapshot, AnswerSteps
    <2>2. QED
      BY <1>8, <1>d, <2>1 DEF GetSnapshot
  <1>9. ASSUME NEW r \in Callers, FindFlag(r)
        PROVE  DecideTypes'
    <2>1. answer' \in [Callers -> Answers] /\ storing' \in [Goroutines -> Progresses]
      <3>1. CASE \E fields \in Answers : MoveOn(r, fields)
        BY <1>a, <3>1
      <3>2. CASE Refresh(r) /\ UNCHANGED answer
        BY <1>b, <3>2
      <3>3. QED
        BY <1>0, <1>9, <3>1, <3>2, AnswerFields DEF FindFlag, AnswerSteps
    <2>2. QED
      BY <1>9, <1>d, <2>1 DEF FindFlag
  <1>10. ASSUME NEW r \in Callers, FindExperiment(r)
         PROVE  DecideTypes'
    <2>1. answer' \in [Callers -> Answers] /\ storing' \in [Goroutines -> Progresses]
      <3>1. CASE \E fields \in Answers : MoveOn(r, fields)
        BY <1>a, <3>1
      <3>2. CASE Refresh(r) /\ UNCHANGED answer
        BY <1>b, <3>2
      <3>3. QED
        BY <1>0, <1>10, <3>1, <3>2, AnswerFields DEF FindExperiment, AnswerSteps
    <2>2. QED
      BY <1>10, <1>d, <2>1 DEF FindExperiment
  <1>11. ASSUME NEW r \in Callers, Evaluate(r)
         PROVE  DecideTypes'
    <2>1. [answer[r] EXCEPT !.at = "answered", !.variant = VariantFor(r)] \in Answers
      BY <1>0, AnswerFields, VariantType DEF AnswerSteps
    <2>2. answer' \in [Callers -> Answers] /\ storing' \in [Goroutines -> Progresses]
      BY <1>11, <1>a, <2>1 DEF Evaluate
    <2>3. channel' \in Seq(Callers) /\ Len(channel') <= ChannelCap /\ dropped' \subseteq Callers
      <3>1. channel \in Seq(Callers) /\ Len(channel) <= ChannelCap /\ dropped \subseteq Callers
        BY <1>0 DEF DecideTypeOK
      <3>2. CASE Len(channel) < ChannelCap /\ channel' = Append(channel, r) /\ dropped' = dropped
        BY <3>1, <3>2
      <3>3. CASE dropped' = dropped \cup {r} /\ channel' = channel
        BY <3>1, <3>3
      <3>4. QED
        BY <1>11, <3>2, <3>3 DEF Evaluate
    <2>4. QED
      BY <1>11, <1>c, <2>2, <2>3 DEF Evaluate, RequestFrame, NoFault
  <1>12. CASE WriteDecision \/ WriteDecisionFails
    <2>1. /\ channel # <<>> /\ channel \in Seq(Callers) /\ Len(channel) <= ChannelCap
          /\ channel' = Tail(channel) /\ PublisherFrame
          /\ (dropped' = dropped \/ dropped' = dropped \cup {Head(channel)})
          /\ faults' = faults \/ Fault
      BY <1>0, <1>12 DEF WriteDecision, WriteDecisionFails, DecideTypeOK, NoFault
    <2>2. Head(channel) \in Callers /\ channel' \in Seq(Callers) /\ Len(channel') <= ChannelCap
      BY <2>1
    <2>3. dropped' \subseteq Callers
      BY <1>0, <2>1, <2>2 DEF DecideTypeOK
    <2>4. \E msgs \in Seq(Messages) : Write("decisions", msgs)
      <3>. DEFINE msgs == <<Record(Head(channel))>>
      <3>1. msgs \in Seq(Messages)
        BY <2>2, RecordType
      <3>2. \A n \in 0..Len(msgs) : SubSeq(msgs, 1, n) \in Seq(Messages)
        BY <3>1, ToSetPrefix
      <3>3. Write("decisions", msgs) \/ WriteFails("decisions", msgs)
        BY <1>12 DEF WriteDecision, WriteDecisionFails
      <3>4. QED
        BY <3>1, <3>2, <3>3 DEF WriteFails
    <2>5. log' \in [Topics -> Seq(Messages)]
      BY <1>0, <2>4 DEF Write, TopicsTypeOK, Topics
    <2>6. QED
      BY <1>0, <2>1, <2>2, <2>3, <2>5 DEF PublisherFrame, DecideTypes, DecideTypeOK, TopicsTypeOK
  <1>14. CASE ShutdownServer
    BY <1>0, <1>14 DEF ShutdownServer, DecideTypes, DecideTypeOK, TopicsTypeOK, FaultsTypeOK, NoFault
  <1>15. CASE StopReturns
    BY <1>0, <1>15 DEF StopReturns, DecideTypes, DecideTypeOK, TopicsTypeOK, FaultsTypeOK, NoFault
  <1>16. CASE OthersWrite
    BY <1>0, <1>16 DEF OthersWrite, decideVars, DecideTypes, DecideTypeOK, TopicsTypeOK, FaultsTypeOK
  <1>17. CASE UNCHANGED <<topicVars, decideVars>>
    BY <1>0, <1>17 DEF topicVars, decideVars, DecideTypes, DecideTypeOK, TopicsTypeOK, FaultsTypeOK
  <1>18. QED
    BY <1>1, <1>2, <1>3, <1>4, <1>5, <1>6, <1>7, <1>8, <1>9, <1>10, <1>11, <1>12,
       <1>14, <1>15, <1>16, <1>17 DEF DecideNext, RefreshStep, DecideStep

LEMMA ReadsStep ==
    DecideTypes /\ ReadsInv /\ [DecideNext \/ OthersWrite]_<<topicVars, decideVars>> => ReadsInv'
  <1>. SUFFICES ASSUME DecideTypes, ReadsInv, [DecideNext \/ OthersWrite]_<<topicVars, decideVars>>,
                       ~ overlapped'
                PROVE  PartsInOrder' /\ \A r \in Callers : ReadInOrder(r)'
    BY DEF ReadsInv
  <1>. USE DecideFacts
  <1>0. /\ DecideTypeOK
        /\ memory["rev"] \in Nat /\ memory["rev"] >= memory["rev"]
        /\ \A p \in Parts : memory[p] \in Nat
        /\ \A g \in Goroutines : storing[g] \in Progresses /\ storing[g].revision \in Nat
        /\ \A r \in Callers : answer[r].rev \in Nat /\ answer[r].flag \in Nat /\ answer[r].exp \in Nat
    <2>1. DecideTypeOK
      BY DEF DecideTypes
    <2>2. \A p \in Parts : memory[p] \in Nat
      BY <2>1 DEF DecideTypeOK
    <2>3. \A g \in Goroutines : storing[g] \in Progresses /\ storing[g].revision \in Nat
      BY <2>1 DEF DecideTypeOK, Progresses
    <2>4. \A r \in Callers : answer[r].rev \in Nat /\ answer[r].flag \in Nat /\ answer[r].exp \in Nat
      BY <2>1 DEF DecideTypeOK
    <2>5. QED
      BY <2>1, <2>2, <2>3, <2>4 DEF Parts
  \* A goroutine that is not about to store anything may do what it likes.
  <1>a. ASSUME PartsInOrder, NEW g \in Goroutines, g \notin Storing, NEW p \in Progresses,
               p.at \notin Parts, storing' = [storing EXCEPT ![g] = p], UNCHANGED memory
        PROVE  PartsInOrder'
    <2>1. /\ Storing' = Storing
          /\ \A h \in Storing : storing'[h] = storing[h]
      BY <1>0, <1>a DEF Storing, DecideTypeOK
    <2>2. QED
      BY <1>a, <2>1 DEF PartsInOrder
  <1>b. ASSUME PartsInOrder, UNCHANGED <<memory, storing>>
        PROVE  PartsInOrder'
    BY <1>b DEF PartsInOrder, Storing
  <1>c. ASSUME \A r \in Callers : ReadInOrder(r), UNCHANGED answer, memory'["rev"] \in Nat,
               memory'["rev"] >= memory["rev"]
        PROVE  \A r \in Callers : ReadInOrder(r)'
    BY <1>0, <1>c DEF ReadInOrder, Parts
  <1>d. ASSUME UNCHANGED overlapped
        PROVE  PartsInOrder /\ \A r \in Callers : ReadInOrder(r)
    BY <1>d DEF ReadsInv
  \* A step of a request leaves the parts alone and keeps its own reads in order.
  <1>e. ASSUME NEW r \in Callers, storing[r].at \in {"idle", "failed"}, RequestFrame,
               \/ \E fields : MoveOn(r, fields)
               \/ Refresh(r),
               NEW fields, answer' = [answer EXCEPT ![r] = fields],
               /\ fields.rev <= memory["rev"]
               /\ fields.at \in {"experiment", "evaluate", "answered"} => fields.flag >= fields.rev
               /\ fields.at \in {"evaluate", "answered"} =>
                     fields.exp = 0 \/ fields.exp >= fields.rev
        PROVE  PartsInOrder' /\ \A q \in Callers : ReadInOrder(q)'
    <2>1. PartsInOrder /\ (\A q \in Callers : ReadInOrder(q)) /\ UNCHANGED memory
      BY <1>d, <1>e DEF RequestFrame
    <2>2. PICK p \in Progresses : p.at \notin Parts /\ storing' = [storing EXCEPT ![r] = p]
      BY <1>e DEF MoveOn, Refresh, Progresses, Parts, NoRefresh
    <2>3. r \notin Storing
      BY <1>e DEF Storing, Parts
    <2>4. PartsInOrder'
      BY <1>a, <2>1, <2>2, <2>3
    <2>5. ASSUME NEW q \in Callers
          PROVE  ReadInOrder(q)'
      BY <1>0, <1>e, <2>1 DEF ReadInOrder, DecideTypeOK
    <2>6. QED
      BY <2>4, <2>5
  <1>1. CASE SnapshotWritten
    BY <1>0, <1>1, <1>b, <1>c, <1>d DEF SnapshotWritten, Parts
  <1>2. CASE StartPoll
    <2>1. /\ [storing[Poll] EXCEPT !.at = "load"] \in Progresses
          /\ [storing[Poll] EXCEPT !.at = "load"].at \notin Parts
      BY <1>0 DEF Progresses, Parts
    <2>2. Poll \notin Storing
      BY <1>2 DEF StartPoll, Storing, Parts
    <2>3. PartsInOrder /\ (\A r \in Callers : ReadInOrder(r)) /\ UNCHANGED <<answer, memory>>
          /\ storing' = [storing EXCEPT ![Poll] = [storing[Poll] EXCEPT !.at = "load"]]
      BY <1>2, <1>d DEF StartPoll, ReaderFrame
    <2>4. PartsInOrder'
      BY <1>a, <2>1, <2>2, <2>3
    <2>5. QED
      BY <1>0, <1>c, <2>2, <2>3, <2>4
  <1>3. ASSUME NEW g \in Goroutines, LoadFromRedis(g) \/ LoadFails(g)
        PROVE  PartsInOrder' /\ \A r \in Callers : ReadInOrder(r)'
    <2>1. g \notin Storing
      BY <1>3 DEF LoadFromRedis, LoadFails, Storing, Parts
    <2>2. PartsInOrder /\ (\A r \in Callers : ReadInOrder(r)) /\ UNCHANGED <<answer, memory>>
      BY <1>3, <1>d DEF LoadFromRedis, LoadFails, ReaderFrame
    <2>3. \E p \in Progresses : p.at \notin Parts /\ storing' = [storing EXCEPT ![g] = p]
      <3>1. CASE LoadFromRedis(g)
        BY <1>0, <3>1 DEF LoadFromRedis, Progresses, Parts, DecideTypeOK
      <3>2. CASE LoadFails(g)
        <4>1. \A s \in {"idle", "failed"} : /\ [storing[g] EXCEPT !.at = s] \in Progresses
                                            /\ [storing[g] EXCEPT !.at = s].at \notin Parts
          BY <1>0 DEF Progresses, Parts
        <4>2. PICK s \in {"idle", "failed"} :
                  storing' = [storing EXCEPT ![g] = [storing[g] EXCEPT !.at = s]]
          BY <3>2 DEF LoadFails
        <4>3. QED
          BY <4>1, <4>2
      <3>3. QED
        BY <1>3, <3>1, <3>2
    <2>4. PartsInOrder'
      BY <1>a, <2>1, <2>2, <2>3
    <2>5. QED
      BY <1>0, <1>c, <2>2, <2>3, <2>4
  <1>4. ASSUME NEW g \in Goroutines, CompareRevision(g)
        PROVE  PartsInOrder' /\ \A r \in Callers : ReadInOrder(r)'
    <2>1. ~ overlapped /\ UNCHANGED <<answer, memory>> /\ storing[g].at = "compare"
      <3>1. ~ overlapped
        BY <1>4, Zenon DEF CompareRevision
      <3>2. UNCHANGED <<answer, memory>> /\ storing[g].at = "compare"
        BY <1>4 DEF CompareRevision, ReaderFrame
      <3>3. QED
        BY <3>1, <3>2
    <2>2. PartsInOrder /\ \A r \in Callers : ReadInOrder(r)
      BY <2>1 DEF ReadsInv
    <2>3. CASE storing[g].revision <= memory["rev"]
      <3>1. storing' = [storing EXCEPT ![g] = [storing[g] EXCEPT !.at = "idle"]]
        BY <1>0, <1>4, <2>3 DEF CompareRevision, Parts
      <3>2. g \notin Storing /\ [storing[g] EXCEPT !.at = "idle"] \in Progresses
            /\ [storing[g] EXCEPT !.at = "idle"].at \notin Parts
        BY <1>0, <2>1 DEF Storing, Parts, Progresses
      <3>3. PartsInOrder'
        BY <1>a, <2>1, <2>2, <3>1, <3>2
      <3>4. QED
        BY <1>0, <1>c, <2>1, <2>2, <3>3
    <2>4. CASE storing[g].revision > memory["rev"]
      <3>1. Storing = {} /\ storing' = [storing EXCEPT ![g].at = "flags"]
        <4>1. ~ (storing[g].revision <= memory["rev"])
          BY <1>0, <2>4
        <4>2. QED
          BY <1>4, <4>1, Zenon DEF CompareRevision
      <3>2. Storing' = {g} /\ storing'[g].at = "flags" /\ storing'[g].revision = storing[g].revision
        BY <1>0, <3>1 DEF Storing, Parts, DecideTypeOK, Progresses
      <3>3. PartsInOrder'
        BY <1>0, <2>1, <2>2, <2>4, <3>1, <3>2 DEF PartsInOrder, Parts
      <3>4. QED
        BY <1>0, <1>c, <2>1, <2>2, <3>3 DEF Parts
    <2>5. QED
      BY <1>0, <2>3, <2>4 DEF Parts
  <1>5. ASSUME NEW g \in Goroutines, StorePart(g)
        PROVE  PartsInOrder' /\ \A r \in Callers : ReadInOrder(r)'
    <2>1. PartsInOrder /\ (\A r \in Callers : ReadInOrder(r)) /\ UNCHANGED answer
      BY <1>5, <1>d DEF StorePart, ReaderFrame
    <2>2. /\ g \in Storing /\ storing[g].at \in Parts
          /\ memory' = [memory EXCEPT ![storing[g].at] = storing[g].revision]
          /\ storing' = [storing EXCEPT ![g].at = NextPart(@)]
      BY <1>5 DEF StorePart, Storing
    <2>3. \A h \in Storing : h = g
      BY <2>1, <2>2 DEF PartsInOrder
    <2>4. /\ storing'[g].at = NextPart(storing[g].at)
          /\ storing'[g].revision = storing[g].revision
          /\ Storing' = IF storing[g].at = "rev" THEN {} ELSE {g}
      BY <1>0, <2>2, <2>3 DEF Storing, NextPart, Parts, DecideTypeOK, Progresses
    <2>5. memory["flags"] \in Nat /\ memory["exps"] \in Nat /\ memory["rev"] \in Nat
          /\ storing[g].revision \in Nat
      BY <1>0 DEF Parts
    <2>6. /\ \A p \in Parts : memory'[p] = IF p = storing[g].at THEN storing[g].revision ELSE memory[p]
          /\ "flags" \in Parts /\ "exps" \in Parts /\ "rev" \in Parts
      BY <1>0, <2>2 DEF DecideTypeOK, Parts
    <2>7. PartsInOrder' /\ memory'["rev"] \in Nat /\ memory'["rev"] >= memory["rev"]
      <3>1. CASE storing[g].at = "flags"
        BY <2>1, <2>2, <2>4, <2>5, <2>6, <3>1 DEF PartsInOrder, NextPart
      <3>2. CASE storing[g].at = "exps"
        BY <2>1, <2>2, <2>4, <2>5, <2>6, <3>2 DEF PartsInOrder, NextPart
      <3>3. CASE storing[g].at = "rev"
        BY <2>1, <2>2, <2>4, <2>5, <2>6, <3>3 DEF PartsInOrder, NextPart
      <3>4. QED
        BY <2>2, <3>1, <3>2, <3>3 DEF Parts
    <2>8. QED
      BY <1>c, <2>1, <2>7
  <1>6. ASSUME NEW r \in Callers, Receive(r)
        PROVE  PartsInOrder' /\ \A q \in Callers : ReadInOrder(q)'
    <2>. DEFINE fields == [NoAnswer EXCEPT !.at = "snapshot"]
    <2>1. fields.rev = 0 /\ fields.at = "snapshot"
      BY DEF NoAnswer
    <2>2. storing[r].at \in {"idle", "failed"} /\ RequestFrame /\ MoveOn(r, fields)
      BY <1>6 DEF Receive, Ready
    <2>3. answer' = [answer EXCEPT ![r] = fields]
      BY <2>2 DEF MoveOn
    <2>4. fields.rev <= memory["rev"]
      BY <1>0, <2>1
    <2>. HIDE DEF fields
    <2>5. QED
      BY <1>e, <2>1, <2>2, <2>3, <2>4
  <1>7. ASSUME NEW r \in Callers, GetSnapshot(r) \/ FindFlag(r) \/ FindExperiment(r)
        PROVE  PartsInOrder' /\ \A q \in Callers : ReadInOrder(q)'
    <2>1. storing[r].at \in {"idle", "failed"} /\ RequestFrame /\ ~ overlapped
      BY <1>7 DEF GetSnapshot, FindFlag, FindExperiment, Ready, RequestFrame
    <2>2. PartsInOrder /\ ReadInOrder(r) /\ answer[r] \in Answers
      BY <1>0, <2>1 DEF ReadsInv, DecideTypeOK, Answers
    <2>3. /\ memory["flags"] \in Nat /\ memory["exps"] \in Nat /\ memory["rev"] \in Nat
          /\ memory["flags"] >= memory["rev"] /\ memory["exps"] >= memory["rev"]
      BY <1>0, <2>2 DEF PartsInOrder, Parts
    <2>4. ASSUME Refresh(r), UNCHANGED answer
          PROVE  PartsInOrder' /\ \A q \in Callers : ReadInOrder(q)'
      <3>1. answer' = [answer EXCEPT ![r] = answer[r]]
        BY <1>0, <2>4 DEF DecideTypeOK
      <3>2. QED
        BY <1>e, <2>1, <2>2, <2>4, <3>1 DEF ReadInOrder
    <2>5. ASSUME NEW fields, MoveOn(r, fields),
                 /\ fields.rev <= memory["rev"]
                 /\ fields.at \in {"experiment", "evaluate", "answered"} => fields.flag >= fields.rev
                 /\ fields.at \in {"evaluate", "answered"} =>
                       fields.exp = 0 \/ fields.exp >= fields.rev
          PROVE  PartsInOrder' /\ \A q \in Callers : ReadInOrder(q)'
      <3>1. answer' = [answer EXCEPT ![r] = fields]
        BY <2>5 DEF MoveOn
      <3>2. QED
        BY <1>e, <2>1, <2>5, <3>1
    <2>6. ASSUME NEW s \in {"unavailable", "flag", "unknown", "gone"},
                 MoveOn(r, [answer[r] EXCEPT !.at = s])
          PROVE  PartsInOrder' /\ \A q \in Callers : ReadInOrder(q)'
      <3>. DEFINE fields == [answer[r] EXCEPT !.at = s]
      <3>1. fields.rev = answer[r].rev /\ fields.at = s
        BY <2>2 DEF Answers
      <3>. HIDE DEF fields
      <3>2. QED
        BY <2>2, <2>5, <2>6, <3>1 DEF ReadInOrder, fields
    <2>7. CASE GetSnapshot(r)
      <3>. DEFINE fields == [answer[r] EXCEPT !.at = "check", !.rev = memory["rev"]]
      <3>1. fields.rev = memory["rev"] /\ fields.at = "check"
        BY <2>2 DEF Answers
      <3>. HIDE DEF fields
      <3>2. MoveOn(r, fields) => PartsInOrder' /\ \A q \in Callers : ReadInOrder(q)'
        BY <2>3, <2>5, <3>1
      <3>3. QED
        BY <2>4, <2>6, <2>7, <3>2 DEF GetSnapshot, fields
    <2>8. CASE FindFlag(r)
      <3>. DEFINE fields == [answer[r] EXCEPT !.at = "experiment", !.flag = memory["flags"]]
      <3>1. fields.rev = answer[r].rev /\ fields.at = "experiment" /\ fields.flag = memory["flags"]
            /\ answer[r].rev \in Nat
        BY <1>0, <2>2 DEF Answers
      <3>. HIDE DEF fields
      <3>2. MoveOn(r, fields) => PartsInOrder' /\ \A q \in Callers : ReadInOrder(q)'
        BY <2>2, <2>3, <2>5, <3>1 DEF ReadInOrder
      <3>3. \/ Refresh(r) /\ UNCHANGED answer
            \/ MoveOn(r, fields)
            \/ \E s \in {"unavailable", "flag", "unknown", "gone"} : MoveOn(r, [answer[r] EXCEPT !.at = s])
        BY <2>8, Zenon DEF FindFlag, fields
      <3>4. QED
        BY <2>4, <2>6, <3>2, <3>3
    <2>9. CASE FindExperiment(r)
      <3>1. answer[r].at = "experiment"
        BY <2>9 DEF FindExperiment, Ready
      <3>2. PICK n \in {0, memory["exps"]} :
               \/ Refresh(r) /\ UNCHANGED answer
               \/ MoveOn(r, [answer[r] EXCEPT !.at = "evaluate", !.exp = n])
        BY <2>9, Zenon DEF FindExperiment
      <3>. DEFINE fields == [answer[r] EXCEPT !.at = "evaluate", !.exp = n]
      <3>3. fields.rev = answer[r].rev /\ fields.at = "evaluate" /\ fields.flag = answer[r].flag
            /\ fields.exp = n /\ answer[r].rev \in Nat
        BY <1>0, <2>2 DEF Answers
      <3>. HIDE DEF fields
      <3>4. MoveOn(r, fields) => PartsInOrder' /\ \A q \in Callers : ReadInOrder(q)'
        BY <2>2, <2>3, <2>5, <3>1, <3>3 DEF ReadInOrder
      <3>5. QED
        BY <2>4, <3>2, <3>4 DEF fields
    <2>10. QED
      BY <1>7, <2>7, <2>8, <2>9
  <1>8. ASSUME NEW r \in Callers, Evaluate(r)
        PROVE  PartsInOrder' /\ \A q \in Callers : ReadInOrder(q)'
    <2>. DEFINE fields == [answer[r] EXCEPT !.at = "answered", !.variant = VariantFor(r)]
    <2>1. answer[r] \in Answers /\ answer[r].at = "evaluate" /\ storing[r].at \in {"idle", "failed"}
          /\ RequestFrame /\ ~ overlapped /\ MoveOn(r, fields)
      BY <1>0, <1>8 DEF Evaluate, Ready, RequestFrame, DecideTypeOK, Answers
    <2>2. fields.rev = answer[r].rev /\ fields.at = "answered" /\ fields.flag = answer[r].flag
          /\ fields.exp = answer[r].exp
      BY <2>1 DEF Answers
    <2>3. answer' = [answer EXCEPT ![r] = fields]
      BY <2>1 DEF MoveOn
    <2>4. ReadInOrder(r)
      BY <2>1 DEF ReadsInv
    <2>. HIDE DEF fields
    <2>5. QED
      BY <1>e, <2>1, <2>2, <2>3, <2>4 DEF ReadInOrder
  <1>9. CASE \/ WriteDecision \/ WriteDecisionFails \/ ShutdownServer \/ StopReturns
             \/ OthersWrite \/ UNCHANGED <<topicVars, decideVars>>
    <2>1. UNCHANGED <<memory, storing, answer, overlapped>>
      BY <1>9 DEF WriteDecision, WriteDecisionFails, ShutdownServer, StopReturns, OthersWrite,
                  PublisherFrame, decideVars
    <2>2. QED
      BY <1>0, <1>b, <1>c, <1>d, <2>1 DEF Parts
  <1>10. QED
    BY <1>1, <1>2, <1>3, <1>4, <1>5, <1>6, <1>7, <1>8, <1>9 DEF DecideNext, RefreshStep, DecideStep

LEMMA AnswersStep ==
    DecideTypes /\ AnswersInv /\ [DecideNext \/ OthersWrite]_<<topicVars, decideVars>> => AnswersInv'
  <1>. SUFFICES ASSUME DecideTypes, AnswersInv, [DecideNext \/ OthersWrite]_<<topicVars, decideVars>>
                PROVE  AnswersInv'
    OBVIOUS
  <1>. USE DecideFacts
  <1>. DEFINE Kept(r) == r \in ToSet(channel) \cup IdsIn(log["decisions"]) \cup dropped
  <1>0. /\ channel \in Seq(Callers) /\ log \in [Topics -> Seq(Messages)]
        /\ \A r \in Callers : answer[r] \in Answers
        /\ answer \in [Callers -> Answers]
        /\ \A r \in Callers : answer[r].at = "answered" => Kept(r)
        /\ serving # "serving" => \A r \in Callers : answer[r].at \in Finished
        /\ serving = "stopped" => channel = <<>>
    BY DEF DecideTypes, DecideTypeOK, TopicsTypeOK, AnswersInv, Answers
  <1>. HIDE DEF Kept
  \* Nobody answers, and the log, the channel and the drops only grow.
  <1>a. ASSUME \A r \in Callers : answer'[r].at = "answered" => answer[r].at = "answered",
               \A r \in Callers : Kept(r) => Kept(r)',
               serving' # "serving" => \A r \in Callers : answer'[r].at \in Finished,
               serving' = "stopped" => channel' = <<>>
        PROVE  AnswersInv'
    BY <1>0, <1>a DEF AnswersInv, Kept
  <1>b. UNCHANGED <<log, channel, dropped>> => \A r \in Callers : Kept(r) => Kept(r)'
    BY DEF Kept
  <1>1. CASE SnapshotWritten \/ StartPoll \/ \E g \in Goroutines : RefreshStep(g)
    <2>1. UNCHANGED <<log, channel, dropped, answer, serving>>
      BY <1>1 DEF SnapshotWritten, StartPoll, RefreshStep, LoadFromRedis, LoadFails,
                  CompareRevision, StorePart, ReaderFrame
    <2>2. QED
      BY <1>0, <1>a, <1>b, <2>1
  \* A request that reads: the server serves, or it would have finished.
  <1>2. ASSUME NEW r \in Callers,
               Receive(r) \/ GetSnapshot(r) \/ FindFlag(r) \/ FindExperiment(r)
        PROVE  AnswersInv'
    <2>1. /\ UNCHANGED <<log, channel, dropped, serving>>
          /\ Receive(r) => serving = "serving"
          /\ answer[r].at \in {"idle", "snapshot", "check", "flag", "experiment"}
          /\ ~ Receive(r) => answer[r].at # "idle"
      BY <1>2 DEF Receive, GetSnapshot, FindFlag, FindExperiment, Ready, RequestFrame
    <2>2. serving = "serving"
      BY <1>0, <2>1 DEF Finished
    <2>3. \A s \in {"check", "unavailable", "flag", "unknown", "gone", "experiment", "evaluate"} : \A n :
             /\ [answer[r] EXCEPT !.at = s].at = s
             /\ [answer[r] EXCEPT !.at = s, !.rev = n].at = s
             /\ [answer[r] EXCEPT !.at = s, !.flag = n].at = s
             /\ [answer[r] EXCEPT !.at = s, !.exp = n].at = s
      BY <1>0 DEF Answers
    <2>4. answer' = answer \/ \E fields : fields.at # "answered" /\ answer' = [answer EXCEPT ![r] = fields]
      <3>1. CASE Receive(r)
        BY <3>1 DEF Receive, MoveOn, NoAnswer
      <3>2. CASE GetSnapshot(r)
        BY <2>3, <3>2 DEF GetSnapshot, MoveOn
      <3>3. CASE FindFlag(r)
        <4>1. \/ UNCHANGED answer
              \/ MoveOn(r, [answer[r] EXCEPT !.at = "experiment", !.flag = memory["flags"]])
              \/ \E s \in {"flag", "unknown", "gone"} : MoveOn(r, [answer[r] EXCEPT !.at = s])
          BY <3>3, Zenon DEF FindFlag
        <4>2. QED
          BY <2>3, <4>1 DEF MoveOn
      <3>4. CASE FindExperiment(r)
        <4>1. \/ UNCHANGED answer
              \/ \E n : MoveOn(r, [answer[r] EXCEPT !.at = "evaluate", !.exp = n])
          BY <3>4, Zenon DEF FindExperiment
        <4>2. QED
          BY <2>3, <4>1 DEF MoveOn
      <3>5. QED
        BY <1>2, <3>1, <3>2, <3>3, <3>4
    <2>5. \A q \in Callers : answer'[q].at = "answered" => answer[q].at = "answered"
      BY <1>0, <2>4
    <2>6. QED
      BY <1>a, <1>b, <2>1, <2>2, <2>5
  <1>3. ASSUME NEW r \in Callers, Evaluate(r)
        PROVE  AnswersInv'
    <2>1. answer[r].at = "evaluate" /\ UNCHANGED <<log, serving>>
      BY <1>3 DEF Evaluate, Ready, RequestFrame
    <2>2. serving = "serving" /\ serving' = "serving"
      BY <1>0, <2>1 DEF Finished
    <2>3. \A q \in Callers : q # r => answer'[q] = answer[q]
      BY <1>0, <1>3 DEF Evaluate, MoveOn
    <2>4. /\ ToSet(channel) \subseteq ToSet(channel') /\ dropped \subseteq dropped'
          /\ r \in ToSet(channel') \cup dropped'
      <3>1. CASE channel' = Append(channel, r) /\ dropped' = dropped
        BY <1>0, <3>1, ToSetAppend
      <3>2. CASE dropped' = dropped \cup {r} /\ channel' = channel
        BY <3>2
      <3>3. QED
        BY <1>3, <3>1, <3>2 DEF Evaluate
    <2>5. QED
      BY <1>0, <2>1, <2>2, <2>3, <2>4 DEF AnswersInv, Kept
  <1>4. CASE WriteDecision \/ WriteDecisionFails
    <2>. DEFINE first == Head(channel)
                msgs == <<Record(first)>>
    <2>1. channel # <<>> /\ channel' = Tail(channel) /\ UNCHANGED <<answer, serving>>
      BY <1>4 DEF WriteDecision, WriteDecisionFails, PublisherFrame
    <2>2. first \in Callers /\ ToSet(channel) = {first} \cup ToSet(channel')
      <3>1. first \in Callers /\ channel' \in Seq(Callers) /\ channel = <<first>> \o channel'
            /\ <<first>> \in Seq(Callers)
        BY <1>0, <2>1
      <3>2. ToSet(<<first>>) = {first}
        BY DEF ToSet
      <3>3. ToSet(<<first>> \o channel') = ToSet(<<first>>) \cup ToSet(channel')
        BY <3>1, ToSetConcat
      <3>4. QED
        BY <3>1, <3>2, <3>3
    <2>3. msgs \in Seq(Messages) /\ Record(first).id = first /\ ToSet(msgs) = {Record(first)}
      BY <2>2, RecordType DEF ToSet
    <2>4. PICK more \in Seq(Messages) : log' = [log EXCEPT !["decisions"] = @ \o more]
      <3>1. \A n \in 0..Len(msgs) : SubSeq(msgs, 1, n) \in Seq(Messages)
        BY <2>3, ToSetPrefix
      <3>2. QED
        BY <1>4, <2>3, <3>1 DEF WriteDecision, WriteDecisionFails, WriteFails, Write
    <2>5. log["decisions"] \in Seq(Messages) /\ log'["decisions"] = log["decisions"] \o more
      BY <1>0, <2>4 DEF Topics
    <2>6. ToSet(log'["decisions"]) = ToSet(log["decisions"]) \cup ToSet(more)
      BY <2>5, ToSetConcat
    <2>7. dropped \subseteq dropped'
      BY <1>4 DEF WriteDecision, WriteDecisionFails
    <2>8. first \in dropped' \cup IdsIn(log'["decisions"])
      <3>1. CASE WriteDecision
        <4>1. log'["decisions"] = log["decisions"] \o msgs
          BY <1>0, <3>1 DEF WriteDecision, Write, Topics
        <4>2. ToSet(log'["decisions"]) = ToSet(log["decisions"]) \cup ToSet(msgs)
          <5>. HIDE DEF msgs
          <5>1. QED
            BY <2>3, <2>5, <4>1, ToSetConcat
        <4>3. QED
          BY <2>3, <4>2 DEF IdsIn
      <3>2. CASE WriteDecisionFails
        BY <3>2 DEF WriteDecisionFails
      <3>3. QED
        BY <1>4, <3>1, <3>2
    <2>9. \A r \in Callers : Kept(r) => Kept(r)'
      BY <2>2, <2>6, <2>7, <2>8 DEF Kept, IdsIn
    <2>10. serving' # "stopped"
      BY <1>0, <2>1
    <2>11. QED
      BY <1>0, <1>a, <2>1, <2>9, <2>10
  <1>5. CASE ShutdownServer \/ StopReturns
    BY <1>0, <1>5, <1>a, <1>b DEF ShutdownServer, StopReturns
  <1>6. CASE OthersWrite
    <2>1. PICK msgs \in Seq(Messages) : log'["decisions"] = log["decisions"] \o msgs
      BY <1>6 DEF OthersWrite, Topics
    <2>2. log["decisions"] \in Seq(Messages)
      BY <1>0 DEF Topics
    <2>3. ToSet(log["decisions"]) \subseteq ToSet(log'["decisions"])
      BY <2>1, <2>2, ToSetConcat
    <2>4. UNCHANGED <<answer, channel, dropped, serving>>
      BY <1>6 DEF OthersWrite, decideVars
    <2>5. \A r \in Callers : Kept(r) => Kept(r)'
      BY <2>3, <2>4 DEF Kept, IdsIn
    <2>6. QED
      BY <1>0, <1>a, <2>4, <2>5
  <1>7. CASE UNCHANGED <<topicVars, decideVars>>
    BY <1>0, <1>7, <1>a, <1>b DEF topicVars, decideVars
  <1>8. QED
    BY <1>1, <1>2, <1>3, <1>4, <1>5, <1>6, <1>7 DEF DecideNext, DecideStep

LEMMA DecideStarts ==
    ASSUME log \in [Topics -> Seq(Messages)], offset \in [Readers -> Nat],
           faults \in 0..MaxFaults,
           NEW written \in Revisions, NEW loaded \in 0..written, DecideInit(loaded, written)
    PROVE  DecideInv
  <1>. USE DecideFacts, FaultAssumption
  <1>1. loaded \in Revisions
    BY DecideAssumption DEF Revisions
  <1>2. DecideTypes
    <2>1. TopicsTypeOK
      BY DEF TopicsTypeOK, FaultsTypeOK
    <2>2. channel \in Seq(Callers) /\ Len(channel) <= ChannelCap
      BY DEF DecideInit
    <2>3. answer \in [Callers -> Answers] /\ storing \in [Goroutines -> Progresses]
      BY DEF DecideInit, Answers, Progresses
    <2>4. QED
      BY <1>1, <2>1, <2>2, <2>3 DEF DecideTypes, DecideTypeOK, DecideInit, Answers, Progresses
  <1>3. Storing = {} /\ \A p \in Parts : memory[p] = loaded
    BY DEF DecideInit, Storing, NoRefresh, Parts
  <1>4. ReadsInv
    BY <1>1, <1>3 DEF ReadsInv, PartsInOrder, ReadInOrder, DecideInit, NoAnswer, Parts
  <1>5. AnswersInv
    BY DEF AnswersInv, DecideInit, NoAnswer
  <1>6. QED
    BY <1>2, <1>4, <1>5 DEF DecideInv

THEOREM DecisionsInvariant == DecideSpec => []DecideInv
  <1>1. DecideSpec => DecideInv
    BY DecideStarts DEF DecideSpec
  <1>2. DecideInv /\ [DecideNext \/ OthersWrite]_<<topicVars, decideVars>> => DecideInv'
    BY DecideTypesStep, ReadsStep, AnswersStep DEF DecideInv
  <1>3. QED
    BY <1>1, <1>2, PTL DEF DecideSpec

\* What an answer was decided on - flag, experiment - is never older than the
\* revision it reports, for any number of requests and snapshots, as long as no
\* two goroutines store at once (Reader.store, GetSnapshot, FindFlag).
THEOREM DecidedOnReported == DecideSpec => []RevisionIsLowerBound
  <1>1. DecideInv => RevisionIsLowerBound
    <2>1. SUFFICES ASSUME DecideInv, ~ overlapped, NEW r \in Callers, answer[r].at = "answered"
                   PROVE  /\ answer[r].flag >= answer[r].rev
                          /\ answer[r].exp # 0 => answer[r].exp >= answer[r].rev
      BY Zenon DEF RevisionIsLowerBound
    <2>2. ReadInOrder(r)
      BY <2>1 DEF DecideInv, ReadsInv
    <2>3. QED
      BY <2>1, <2>2 DEF ReadInOrder
  <1>2. QED
    BY <1>1, DecisionsInvariant, PTL

\* After an orderly stop the decision of every answer is in Kafka or was
\* dropped on record, for any number of requests and any size of the channel
\* (DecisionPublisher.Publish, run, Stop).
THEOREM EveryDecisionWritten == DecideSpec => []DecisionsWritten
  <1>1. DecideInv => DecisionsWritten
    BY ToSetEmpty DEF DecideInv, AnswersInv, DecisionsWritten
  <1>2. QED
    BY <1>1, DecisionsInvariant, PTL
=============================================================================
