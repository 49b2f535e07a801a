---------------------------- MODULE CoreSync_proofs ----------------------------
(***************************************************************************)
(* Proofs about CoreSync, for any windows, values and bounds, on a host    *)
(* that announces its writes and on one that does not: type correctness,   *)
(* that nothing but a user's value reaches the authority, that the newest  *)
(* write is never dropped, and that a deaf window has a write under way.   *)
(***************************************************************************)
EXTENDS CoreSync, SequenceTheorems, TLAPS

(* What a window has posted to the core: each call carries a value that was
   sent, and one that was refused counted as a failure.                    *)
Posted(w) == {c \in Call : c.value \in sent[w] /\ (c.refused => failures > 0)}

CallsArePosted == \A w \in Windows : sets[w] \in Seq(Posted(w))

(* A window that has not subscribed has nothing newer than the authority.  *)
CleanUntilStarted == \A w \in Windows : stage[w] \in {"off", "loaded"} => ~dirty[w]

IInv == TypeOK /\ CallsArePosted /\ CleanUntilStarted /\ NewestIsSent /\ DirtyHasAWrite

------------------------------------------------------------------------------
(* A sequence less one element is a sequence of the same kind. *)
LEMMA RemoveAtType ==
    ASSUME NEW S, NEW s \in Seq(S), NEW i \in 1 .. Len(s)
    PROVE  RemoveAt(s, i) \in Seq(S)
<1>1. SubSeq(s, 1, i - 1) \in Seq(S)
  BY SubSeqProperties, LenProperties, ElementOfSeq
<1>2. SubSeq(s, i + 1, Len(s)) \in Seq(S)
  BY SubSeqProperties, LenProperties, ElementOfSeq
<1>3. QED
  BY <1>1, <1>2, ConcatProperties DEF RemoveAt

(* A queue that was appended to holds something. *)
LEMMA AppendNotEmpty ==
    ASSUME NEW S, NEW q \in Seq(S), NEW e \in S
    PROVE  Append(q, e) # <<>>
  BY AppendProperties

(* The first state is of its types, and nothing was posted, saved or staged. *)
LEMMA InitInv == Init => IInv
<1> SUFFICES ASSUME Init PROVE IInv
  OBVIOUS
<1>1. \A S : <<>> \in Seq(S)
  BY EmptySeq
<1>2. TypeOK
  BY <1>1, CoreSyncAssumption DEF Init, TypeOK, Value
<1>3. CallsArePosted /\ CleanUntilStarted /\ NewestIsSent /\ DirtyHasAWrite
  BY <1>1 DEF Init, CallsArePosted, CleanUntilStarted, NewestIsSent, DirtyHasAWrite
<1>4. QED
  BY <1>2, <1>3 DEF IInv

(* No step leaves the types. *)
LEMMA TypeStep ==
    ASSUME TypeOK, [Next]_vars
    PROVE  TypeOK'
<1>1. ASSUME NEW w \in Windows, Load(w)
      PROVE  TypeOK'
  BY <1>1, CoreSyncAssumption
  DEF TypeOK, Value, Load, Readable, history
<1>2. ASSUME NEW w \in Windows, Start(w)
      PROVE  TypeOK'
  BY <1>2, CoreSyncAssumption
  DEF TypeOK, Value, Start, history
<1>3. ASSUME NEW w \in Windows, Flush(w)
      PROVE  TypeOK'
<2>1. [value |-> pending[w], served |-> FALSE, refused |-> FALSE] \in Call
  BY <1>3, CoreSyncAssumption DEF TypeOK, Call, Flush
<2>2. Append(sets[w], [value |-> pending[w], served |-> FALSE, refused |-> FALSE]) \in Seq(Call)
  BY <2>1, AppendProperties DEF TypeOK
<2>3. QED
  BY <1>3, <2>2, CoreSyncAssumption
  DEF TypeOK, Value, Flush, Staging, Posting, history
<1>4. ASSUME NEW w \in Windows, Close(w)
      PROVE  TypeOK'
<2>1. <<>> \in Seq(Value)
  BY EmptySeq
<2>2. CASE pending[w] = None
  BY <1>4, <2>1, <2>2 DEF TypeOK, Value, Close, OnHide
<2>3. CASE pending[w] # None
  <3>1. [value |-> pending[w], served |-> FALSE, refused |-> FALSE] \in Call
    BY <2>3 DEF TypeOK, Call
  <3>2. Append(sets[w], [value |-> pending[w], served |-> FALSE, refused |-> FALSE]) \in Seq(Call)
    BY <3>1, AppendNotEmpty DEF TypeOK
  <3>3. QED
    <4>0. /\ pending[w] \in Values /\ cache' = pending[w]
          /\ sent' = [sent EXCEPT ![w] = @ \cup {pending[w]}]
          /\ newest' = [newest EXCEPT ![w] = pending[w]]
          /\ sets' = [sets EXCEPT ![w] = Append(@,
                [value |-> pending[w], served |-> FALSE, refused |-> FALSE])]
      BY <1>4, <2>3 DEF TypeOK, Close, OnHide, Posting
    <4>1. /\ cache' \in Value \cup {None, BadShape} /\ sets' \in [Windows -> Seq(Call)]
          /\ sent' \in [Windows -> SUBSET Values]
          /\ newest' \in [Windows -> Values \cup {None}]
      BY <3>2, <4>0 DEF TypeOK, Value
    <4>2. QED
      BY <1>4, <2>1, <4>1 DEF TypeOK, Close
<2>4. QED
  BY <2>2, <2>3
<1>5. ASSUME NEW w \in Windows, ServeHydrate(w)
      PROVE  TypeOK'
  BY <1>5, CoreSyncAssumption
  DEF TypeOK, Value, ServeHydrate, history
<1>6. ASSUME NEW w \in Windows, RefuseHydrate(w)
      PROVE  TypeOK'
  BY <1>6, CoreSyncAssumption
  DEF TypeOK, Value, RefuseHydrate, history
<1>7. ASSUME NEW w \in Windows, Hydrated(w)
      PROVE  TypeOK'
  BY <1>7, CoreSyncAssumption
  DEF TypeOK, Value, Hydrated, HydrateWrites, Readable, history
<1>8. ASSUME NEW w \in Windows, NEW v \in Values, SaveEarly(w, v)
      PROVE  TypeOK'
  BY <1>8, CoreSyncAssumption
  DEF TypeOK, Value, SaveEarly, history
<1>9. ASSUME NEW w \in Windows, NEW v \in Values, Save(w, v)
      PROVE  TypeOK'
  BY <1>9, CoreSyncAssumption
  DEF TypeOK, Value, Save, Staging
<1>10. ASSUME NEW w \in Windows, NEW v \in Values, SaveNow(w, v)
      PROVE  TypeOK'
<2>1. [value |-> v, served |-> FALSE, refused |-> FALSE] \in Call
  BY <1>10, CoreSyncAssumption DEF TypeOK, Call, SaveNow
<2>2. Append(sets[w], [value |-> v, served |-> FALSE, refused |-> FALSE]) \in Seq(Call)
  BY <2>1, AppendProperties DEF TypeOK
<2>3. QED
  BY <1>10, <2>2, CoreSyncAssumption
  DEF TypeOK, Value, SaveNow, Staging, Posting, history
<1>11. ASSUME NEW w \in Windows, NEW i \in 1 .. Len(sets[w]), ServeSet(w, i)
      PROVE  TypeOK'
<2>1. sets[w][i] \in Call
  BY ElementOfSeq DEF TypeOK
<2>2. [sets[w][i] EXCEPT !.served = TRUE] \in Call /\ sets[w][i].value \in Value
  BY <2>1 DEF Call, Value
<2>3. [sets[w] EXCEPT ![i] = [sets[w][i] EXCEPT !.served = TRUE]] \in Seq(Call)
  BY <2>2, ExceptSeq DEF TypeOK
<2>4. sets' \in [Windows -> Seq(Call)] /\ disk' \in Value \cup {None}
  BY <1>11, <2>2, <2>3 DEF TypeOK, ServeSet
<2>5. heard' \in [Windows -> Nat]
  BY <1>11 DEF TypeOK, ServeSet
<2>6. QED
  BY <1>11, <2>4, <2>5 DEF TypeOK, ServeSet, local, history
<1>12. ASSUME NEW w \in Windows, NEW i \in 1 .. Len(sets[w]), RefuseSet(w, i)
      PROVE  TypeOK'
<2>1. sets[w][i] \in Call
  BY ElementOfSeq DEF TypeOK
<2>2. [sets[w][i] EXCEPT !.served = TRUE, !.refused = TRUE] \in Call
  BY <2>1 DEF Call
<2>3. [sets[w] EXCEPT ![i] = [sets[w][i] EXCEPT !.served = TRUE, !.refused = TRUE]] \in Seq(Call)
  BY <2>2, ExceptSeq DEF TypeOK
<2>4. sets' \in [Windows -> Seq(Call)]
  BY <1>12, <2>3 DEF TypeOK, RefuseSet
<2>5. QED
  BY <1>12, <2>4, CoreSyncAssumption DEF TypeOK, RefuseSet, local, history
<1>13. ASSUME NEW w \in Windows, NEW i \in 1 .. Len(sets[w]), SetAnswered(w, i)
      PROVE  TypeOK'
<2>1. RemoveAt(sets[w], i) \in Seq(Call)
  BY RemoveAtType DEF TypeOK
<2>2. QED
  BY <1>13, <2>1 DEF TypeOK, SetAnswered, Acknowledge, history
<1>14. ASSUME NEW w \in Windows, ServeRead(w)
      PROVE  TypeOK'
<2>1. disk # None => Append(answers[w], disk) \in Seq(Value)
  BY AppendProperties DEF TypeOK
<2>2. QED
  BY <1>14, <2>1 DEF TypeOK, ServeRead, local, history
<1>15. ASSUME NEW w \in Windows, RefuseRead(w)
      PROVE  TypeOK'
  BY <1>15, CoreSyncAssumption
  DEF TypeOK, Value, RefuseRead, local, history
<1>16. ASSUME NEW w \in Windows, NEW i \in 1 .. Len(answers[w]), ReadAnswered(w, i)
      PROVE  TypeOK'
<2>1. answers[w][i] \in Value /\ RemoveAt(answers[w], i) \in Seq(Value)
  BY ElementOfSeq, RemoveAtType DEF TypeOK
<2>2. QED
  BY <1>16, <2>1 DEF TypeOK, ReadAnswered, Adopts, history
<1>17. CASE UNCHANGED vars
  BY <1>17, CoreSyncAssumption
  DEF TypeOK, Value, vars, local, history
<1>18. QED
  BY <1>1, <1>2, <1>3, <1>4, <1>5, <1>6, <1>7, <1>8, <1>9, <1>10, <1>11, <1>12, <1>13, <1>14, <1>15, <1>16, <1>17 DEF Next

(* What was sent stays sent, and failures are not forgotten. *)
LEMMA Monotonic ==
    ASSUME TypeOK, [Next]_vars
    PROVE  \A x \in Windows : sent[x] \subseteq sent'[x] /\ (failures > 0 => failures' > 0)
<1> DEFINE Grows == \A x \in Windows : sent[x] \subseteq sent'[x] /\ (failures > 0 => failures' > 0)
<1>1. ASSUME NEW w \in Windows, Load(w)
      PROVE  Grows
  BY <1>1
  DEF TypeOK, Load, Readable, history
<1>2. ASSUME NEW w \in Windows, Start(w)
      PROVE  Grows
  BY <1>2
  DEF TypeOK, Start, history
<1>3. ASSUME NEW w \in Windows, Flush(w)
      PROVE  Grows
  BY <1>3 DEF TypeOK, Flush, Staging, Posting
<1>4. ASSUME NEW w \in Windows, Close(w)
      PROVE  Grows
<2>1. failures' = failures /\ \A x \in Windows : sent[x] \subseteq sent'[x]
  <3>1. CASE pending[w] = None
    BY <1>4, <3>1 DEF Close, OnHide
  <3>2. CASE pending[w] # None
    <4>1. sent' = [sent EXCEPT ![w] = @ \cup {pending[w]}]
      BY <1>4, <3>2 DEF Close, OnHide, Posting
    <4>2. QED
      BY <1>4, <4>1 DEF Close, TypeOK
  <3>3. QED
    BY <3>1, <3>2
<2>2. QED
  BY <2>1
<1>5. ASSUME NEW w \in Windows, ServeHydrate(w)
      PROVE  Grows
  BY <1>5
  DEF TypeOK, ServeHydrate, history
<1>6. ASSUME NEW w \in Windows, RefuseHydrate(w)
      PROVE  Grows
  BY <1>6
  DEF TypeOK, RefuseHydrate, history
<1>7. ASSUME NEW w \in Windows, Hydrated(w)
      PROVE  Grows
  BY <1>7
  DEF TypeOK, Hydrated, HydrateWrites, Readable, history
<1>8. ASSUME NEW w \in Windows, NEW v \in Values, SaveEarly(w, v)
      PROVE  Grows
  BY <1>8
  DEF TypeOK, SaveEarly, history
<1>9. ASSUME NEW w \in Windows, NEW v \in Values, Save(w, v)
      PROVE  Grows
  BY <1>9
  DEF TypeOK, Save, Staging
<1>10. ASSUME NEW w \in Windows, NEW v \in Values, SaveNow(w, v)
      PROVE  Grows
  BY <1>10 DEF TypeOK, SaveNow, Staging, Posting
<1>11. ASSUME NEW w \in Windows, NEW i \in 1 .. Len(sets[w]), ServeSet(w, i)
      PROVE  Grows
  BY <1>11
  DEF TypeOK, ServeSet, Listening, local, history
<1>12. ASSUME NEW w \in Windows, NEW i \in 1 .. Len(sets[w]), RefuseSet(w, i)
      PROVE  Grows
  BY <1>12
  DEF TypeOK, RefuseSet, local, history
<1>13. ASSUME NEW w \in Windows, NEW i \in 1 .. Len(sets[w]), SetAnswered(w, i)
      PROVE  Grows
  BY <1>13
  DEF TypeOK, SetAnswered, Acknowledge, history
<1>14. ASSUME NEW w \in Windows, ServeRead(w)
      PROVE  Grows
  BY <1>14
  DEF TypeOK, ServeRead, local, history
<1>15. ASSUME NEW w \in Windows, RefuseRead(w)
      PROVE  Grows
  BY <1>15
  DEF TypeOK, RefuseRead, local, history
<1>16. ASSUME NEW w \in Windows, NEW i \in 1 .. Len(answers[w]), ReadAnswered(w, i)
      PROVE  Grows
  BY <1>16
  DEF TypeOK, ReadAnswered, Adopts, history
<1>17. CASE UNCHANGED vars
  BY <1>17
  DEF TypeOK, vars, local, history
<1>18. QED
  BY <1>1, <1>2, <1>3, <1>4, <1>5, <1>6, <1>7, <1>8, <1>9, <1>10, <1>11, <1>12, <1>13, <1>14, <1>15, <1>16, <1>17 DEF Next

(* So a call that was posted stays one. *)
LEMMA PostedGrows ==
    ASSUME TypeOK, [Next]_vars, NEW x \in Windows
    PROVE  Posted(x) \subseteq Posted(x)'
  BY Monotonic DEF Posted

(* Every call out carries a value that was sent. *)
LEMMA CallsStep ==
    ASSUME TypeOK, CallsArePosted, [Next]_vars
    PROVE  CallsArePosted'
<1>0. ASSUME NEW x \in Windows PROVE sets[x] \in Seq(Posted(x)')
  BY PostedGrows, SeqMonotonic DEF CallsArePosted
<1>a. ASSUME sets' = sets PROVE CallsArePosted'
  BY <1>0, <1>a DEF CallsArePosted
<1>b. ASSUME NEW w \in Windows, NEW q \in Seq(Posted(w)'), sets' = [sets EXCEPT ![w] = q]
      PROVE  CallsArePosted'
  BY <1>0, <1>b DEF CallsArePosted, TypeOK
<1>c. ASSUME NEW w \in Windows, NEW v \in Values, sent' = [sent EXCEPT ![w] = @ \cup {v}],
             sets' = [sets EXCEPT ![w] =
                         Append(@, [value |-> v, served |-> FALSE, refused |-> FALSE])]
      PROVE  CallsArePosted'
  <2>1. [value |-> v, served |-> FALSE, refused |-> FALSE] \in Posted(w)'
    BY <1>c DEF TypeOK, Posted, Call
  <2>2. Append(sets[w], [value |-> v, served |-> FALSE, refused |-> FALSE]) \in Seq(Posted(w)')
    BY <2>1, <1>0, AppendProperties
  <2>3. QED
    BY <1>b, <1>c, <2>2
<1>1. ASSUME NEW w \in Windows, Load(w)
      PROVE  CallsArePosted'
  BY <1>1, <1>a DEF Load
<1>2. ASSUME NEW w \in Windows, Start(w)
      PROVE  CallsArePosted'
  BY <1>2, <1>a DEF Start
<1>3. ASSUME NEW w \in Windows, Flush(w)
      PROVE  CallsArePosted'
<2>1. pending[w] \in Values
  BY <1>3 DEF TypeOK, Flush
<2>2. QED
  BY <1>3, <2>1, <1>c DEF Flush, Posting
<1>4. ASSUME NEW w \in Windows, Close(w)
      PROVE  CallsArePosted'
<2>1. CASE pending[w] = None
  BY <1>4, <2>1, <1>a DEF Close, OnHide
<2>2. CASE pending[w] # None
  <3>1. pending[w] \in Values
    BY <2>2 DEF TypeOK
  <3>2. QED
    BY <1>4, <2>2, <3>1, <1>c DEF Close, OnHide, Posting
<2>3. QED
  BY <2>1, <2>2
<1>5. ASSUME NEW w \in Windows, ServeHydrate(w)
      PROVE  CallsArePosted'
  BY <1>5, <1>a DEF ServeHydrate
<1>6. ASSUME NEW w \in Windows, RefuseHydrate(w)
      PROVE  CallsArePosted'
  BY <1>6, <1>a DEF RefuseHydrate
<1>7. ASSUME NEW w \in Windows, Hydrated(w)
      PROVE  CallsArePosted'
  BY <1>7, <1>a DEF Hydrated
<1>8. ASSUME NEW w \in Windows, NEW v \in Values, SaveEarly(w, v)
      PROVE  CallsArePosted'
  BY <1>8, <1>a DEF SaveEarly
<1>9. ASSUME NEW w \in Windows, NEW v \in Values, Save(w, v)
      PROVE  CallsArePosted'
  BY <1>9, <1>a DEF Save
<1>10. ASSUME NEW w \in Windows, NEW v \in Values, SaveNow(w, v)
      PROVE  CallsArePosted'
  BY <1>10, <1>c DEF SaveNow, Posting
<1>11. ASSUME NEW w \in Windows, NEW i \in 1 .. Len(sets[w]), ServeSet(w, i)
      PROVE  CallsArePosted'
<2>1. sets[w][i] \in Posted(w)'
  BY <1>0, ElementOfSeq
<2>2. [sets[w][i] EXCEPT !.served = TRUE] \in Posted(w)'
  BY <2>1 DEF Posted, Call
<2>3. [sets[w] EXCEPT ![i] = [sets[w][i] EXCEPT !.served = TRUE]] \in Seq(Posted(w)')
  BY <1>0, <2>2, ExceptSeq
<2>4. QED
  BY <1>11, <2>3, <1>b DEF ServeSet
<1>12. ASSUME NEW w \in Windows, NEW i \in 1 .. Len(sets[w]), RefuseSet(w, i)
      PROVE  CallsArePosted'
<2>1. sets[w][i] \in Posted(w)'
  BY <1>0, ElementOfSeq
<2>2. failures' > 0
  BY <1>12 DEF RefuseSet, TypeOK
<2>3. [sets[w][i] EXCEPT !.served = TRUE, !.refused = TRUE] \in Posted(w)'
  BY <2>1, <2>2 DEF Posted, Call
<2>4. [sets[w] EXCEPT ![i] = [sets[w][i] EXCEPT !.served = TRUE, !.refused = TRUE]]
        \in Seq(Posted(w)')
  BY <1>0, <2>3, ExceptSeq
<2>5. QED
  BY <1>12, <2>4, <1>b DEF RefuseSet
<1>13. ASSUME NEW w \in Windows, NEW i \in 1 .. Len(sets[w]), SetAnswered(w, i)
      PROVE  CallsArePosted'
<2>1. RemoveAt(sets[w], i) \in Seq(Posted(w)')
  BY <1>0, RemoveAtType
<2>2. QED
  BY <1>13, <2>1, <1>b DEF SetAnswered
<1>14. ASSUME NEW w \in Windows, ServeRead(w)
      PROVE  CallsArePosted'
  BY <1>14, <1>a DEF ServeRead
<1>15. ASSUME NEW w \in Windows, RefuseRead(w)
      PROVE  CallsArePosted'
  BY <1>15, <1>a DEF RefuseRead
<1>16. ASSUME NEW w \in Windows, NEW i \in 1 .. Len(answers[w]), ReadAnswered(w, i)
      PROVE  CallsArePosted'
  BY <1>16, <1>a DEF ReadAnswered
<1>17. CASE UNCHANGED vars
  BY <1>17, <1>a DEF vars
<1>18. QED
  BY <1>1, <1>2, <1>3, <1>4, <1>5, <1>6, <1>7, <1>8, <1>9, <1>10, <1>11, <1>12, <1>13, <1>14, <1>15, <1>16, <1>17 DEF Next

(* The newest write waits for its debounce, or is what was sent last. *)
LEMMA NewestStep ==
    ASSUME TypeOK, NewestIsSent, [Next]_vars
    PROVE  NewestIsSent'
<1>1. ASSUME NEW w \in Windows, Load(w)
      PROVE  NewestIsSent'
  BY <1>1, CoreSyncAssumption
  DEF TypeOK, NewestIsSent, Load, Readable, history
<1>2. ASSUME NEW w \in Windows, Start(w)
      PROVE  NewestIsSent'
  BY <1>2, CoreSyncAssumption
  DEF TypeOK, NewestIsSent, Start, history
<1>3. ASSUME NEW w \in Windows, Flush(w)
      PROVE  NewestIsSent'
  BY <1>3, CoreSyncAssumption DEF TypeOK, NewestIsSent, Flush, Staging, Posting
<1>4. ASSUME NEW w \in Windows, Close(w)
      PROVE  NewestIsSent'
  BY <1>4, CoreSyncAssumption DEF TypeOK, NewestIsSent, Close, OnHide, Posting
<1>5. ASSUME NEW w \in Windows, ServeHydrate(w)
      PROVE  NewestIsSent'
  BY <1>5, CoreSyncAssumption
  DEF TypeOK, NewestIsSent, ServeHydrate, history
<1>6. ASSUME NEW w \in Windows, RefuseHydrate(w)
      PROVE  NewestIsSent'
  BY <1>6, CoreSyncAssumption
  DEF TypeOK, NewestIsSent, RefuseHydrate, history
<1>7. ASSUME NEW w \in Windows, Hydrated(w)
      PROVE  NewestIsSent'
  BY <1>7, CoreSyncAssumption
  DEF TypeOK, NewestIsSent, Hydrated, HydrateWrites, Readable, history
<1>8. ASSUME NEW w \in Windows, NEW v \in Values, SaveEarly(w, v)
      PROVE  NewestIsSent'
  BY <1>8, CoreSyncAssumption
  DEF TypeOK, NewestIsSent, SaveEarly, history
<1>9. ASSUME NEW w \in Windows, NEW v \in Values, Save(w, v)
      PROVE  NewestIsSent'
  BY <1>9, CoreSyncAssumption
  DEF TypeOK, NewestIsSent, Save, Staging
<1>10. ASSUME NEW w \in Windows, NEW v \in Values, SaveNow(w, v)
      PROVE  NewestIsSent'
  BY <1>10, CoreSyncAssumption DEF TypeOK, NewestIsSent, SaveNow, Staging, Posting
<1>11. ASSUME NEW w \in Windows, NEW i \in 1 .. Len(sets[w]), ServeSet(w, i)
      PROVE  NewestIsSent'
  BY <1>11, CoreSyncAssumption
  DEF TypeOK, NewestIsSent, ServeSet, Listening, local, history
<1>12. ASSUME NEW w \in Windows, NEW i \in 1 .. Len(sets[w]), RefuseSet(w, i)
      PROVE  NewestIsSent'
  BY <1>12, CoreSyncAssumption
  DEF TypeOK, NewestIsSent, RefuseSet, local, history
<1>13. ASSUME NEW w \in Windows, NEW i \in 1 .. Len(sets[w]), SetAnswered(w, i)
      PROVE  NewestIsSent'
  BY <1>13, CoreSyncAssumption
  DEF TypeOK, NewestIsSent, SetAnswered, Acknowledge, history
<1>14. ASSUME NEW w \in Windows, ServeRead(w)
      PROVE  NewestIsSent'
  BY <1>14, CoreSyncAssumption
  DEF TypeOK, NewestIsSent, ServeRead, local, history
<1>15. ASSUME NEW w \in Windows, RefuseRead(w)
      PROVE  NewestIsSent'
  BY <1>15, CoreSyncAssumption
  DEF TypeOK, NewestIsSent, RefuseRead, local, history
<1>16. ASSUME NEW w \in Windows, NEW i \in 1 .. Len(answers[w]), ReadAnswered(w, i)
      PROVE  NewestIsSent'
  BY <1>16, CoreSyncAssumption
  DEF TypeOK, NewestIsSent, ReadAnswered, Adopts, history
<1>17. CASE UNCHANGED vars
  BY <1>17, CoreSyncAssumption
  DEF TypeOK, NewestIsSent, vars, local, history
<1>18. QED
  BY <1>1, <1>2, <1>3, <1>4, <1>5, <1>6, <1>7, <1>8, <1>9, <1>10, <1>11, <1>12, <1>13, <1>14, <1>15, <1>16, <1>17 DEF Next

(* A window becomes dirty by a write of its own, once it has subscribed. *)
LEMMA CleanStep ==
    ASSUME TypeOK, CleanUntilStarted, [Next]_vars
    PROVE  CleanUntilStarted'
<1>1. ASSUME NEW w \in Windows, Load(w)
      PROVE  CleanUntilStarted'
  BY <1>1
  DEF TypeOK, CleanUntilStarted, Load, Readable, history
<1>2. ASSUME NEW w \in Windows, Start(w)
      PROVE  CleanUntilStarted'
  BY <1>2
  DEF TypeOK, CleanUntilStarted, Start, history
<1>3. ASSUME NEW w \in Windows, Flush(w)
      PROVE  CleanUntilStarted'
  BY <1>3
  DEF TypeOK, CleanUntilStarted, Flush, Staging, Posting
<1>4. ASSUME NEW w \in Windows, Close(w)
      PROVE  CleanUntilStarted'
  BY <1>4
  DEF TypeOK, CleanUntilStarted, Close, OnHide, Posting
<1>5. ASSUME NEW w \in Windows, ServeHydrate(w)
      PROVE  CleanUntilStarted'
  BY <1>5
  DEF TypeOK, CleanUntilStarted, ServeHydrate, history
<1>6. ASSUME NEW w \in Windows, RefuseHydrate(w)
      PROVE  CleanUntilStarted'
  BY <1>6
  DEF TypeOK, CleanUntilStarted, RefuseHydrate, history
<1>7. ASSUME NEW w \in Windows, Hydrated(w)
      PROVE  CleanUntilStarted'
  BY <1>7
  DEF TypeOK, CleanUntilStarted, Hydrated, HydrateWrites, Readable, history
<1>8. ASSUME NEW w \in Windows, NEW v \in Values, SaveEarly(w, v)
      PROVE  CleanUntilStarted'
  BY <1>8
  DEF TypeOK, CleanUntilStarted, SaveEarly
<1>9. ASSUME NEW w \in Windows, NEW v \in Values, Save(w, v)
      PROVE  CleanUntilStarted'
  BY <1>9
  DEF TypeOK, CleanUntilStarted, Save, Staging
<1>10. ASSUME NEW w \in Windows, NEW v \in Values, SaveNow(w, v)
      PROVE  CleanUntilStarted'
  BY <1>10
  DEF TypeOK, CleanUntilStarted, SaveNow, Staging, Posting
<1>11. ASSUME NEW w \in Windows, NEW i \in 1 .. Len(sets[w]), ServeSet(w, i)
      PROVE  CleanUntilStarted'
  BY <1>11
  DEF TypeOK, CleanUntilStarted, ServeSet, Listening, local, history
<1>12. ASSUME NEW w \in Windows, NEW i \in 1 .. Len(sets[w]), RefuseSet(w, i)
      PROVE  CleanUntilStarted'
  BY <1>12
  DEF TypeOK, CleanUntilStarted, RefuseSet, local, history
<1>13. ASSUME NEW w \in Windows, NEW i \in 1 .. Len(sets[w]), SetAnswered(w, i)
      PROVE  CleanUntilStarted'
  BY <1>13
  DEF TypeOK, CleanUntilStarted, SetAnswered, Acknowledge, history
<1>14. ASSUME NEW w \in Windows, ServeRead(w)
      PROVE  CleanUntilStarted'
  BY <1>14
  DEF TypeOK, CleanUntilStarted, ServeRead, local, history
<1>15. ASSUME NEW w \in Windows, RefuseRead(w)
      PROVE  CleanUntilStarted'
  BY <1>15
  DEF TypeOK, CleanUntilStarted, RefuseRead, local, history
<1>16. ASSUME NEW w \in Windows, NEW i \in 1 .. Len(answers[w]), ReadAnswered(w, i)
      PROVE  CleanUntilStarted'
  BY <1>16
  DEF TypeOK, CleanUntilStarted, ReadAnswered, Adopts, history
<1>17. CASE UNCHANGED vars
  BY <1>17
  DEF TypeOK, CleanUntilStarted, vars, local, history
<1>18. QED
  BY <1>1, <1>2, <1>3, <1>4, <1>5, <1>6, <1>7, <1>8, <1>9, <1>10, <1>11, <1>12, <1>13, <1>14, <1>15, <1>16, <1>17 DEF Next

(* A window that takes its own value for newer has a write under way. *)
LEMMA DirtyStep ==
    ASSUME TypeOK, CallsArePosted, CleanUntilStarted, DirtyHasAWrite, [Next]_vars
    PROVE  DirtyHasAWrite'
<1>1. ASSUME NEW w \in Windows, Load(w)
      PROVE  DirtyHasAWrite'
  BY <1>1, CoreSyncAssumption
  DEF TypeOK, DirtyHasAWrite, Load, Readable, history
<1>2. ASSUME NEW w \in Windows, Start(w)
      PROVE  DirtyHasAWrite'
  BY <1>2 DEF TypeOK, CleanUntilStarted, DirtyHasAWrite, Start
<1>3. ASSUME NEW w \in Windows, Flush(w)
      PROVE  DirtyHasAWrite'
<2>1. Append(sets[w], [value |-> pending[w], served |-> FALSE, refused |-> FALSE]) # <<>>
  <3>1. [value |-> pending[w], served |-> FALSE, refused |-> FALSE] \in Call
    BY <1>3 DEF TypeOK, Call, Flush
  <3>2. QED
    BY <3>1, AppendNotEmpty DEF TypeOK
<2>2. sets'[w] # <<>> /\ stage' = stage /\ failures' = failures
  BY <1>3, <2>1 DEF TypeOK, Flush, Posting
<2>3. ASSUME NEW x \in Windows, x # w
      PROVE  dirty'[x] = dirty[x] /\ pending'[x] = pending[x] /\ sets'[x] = sets[x]
  BY <1>3, <2>3 DEF TypeOK, Flush, Staging, Posting
<2>4. QED
  BY <2>2, <2>3 DEF DirtyHasAWrite
<1>4. ASSUME NEW w \in Windows, Close(w)
      PROVE  DirtyHasAWrite'
<2>1. stage'[w] # "on"
  BY <1>4 DEF Close, TypeOK
<2>2. ASSUME NEW x \in Windows, x # w
      PROVE  /\ stage'[x] = stage[x] /\ pending'[x] = pending[x] /\ sets'[x] = sets[x]
             /\ dirty' = dirty /\ failures' = failures
  BY <1>4, <2>2 DEF Close, OnHide, Posting, TypeOK
<2>3. QED
  BY <2>1, <2>2 DEF DirtyHasAWrite
<1>5. ASSUME NEW w \in Windows, ServeHydrate(w)
      PROVE  DirtyHasAWrite'
  BY <1>5, CoreSyncAssumption
  DEF TypeOK, DirtyHasAWrite, ServeHydrate, history
<1>6. ASSUME NEW w \in Windows, RefuseHydrate(w)
      PROVE  DirtyHasAWrite'
<2>1. failures' # 0
  BY <1>6 DEF RefuseHydrate, TypeOK
<2>2. QED
  BY <2>1 DEF DirtyHasAWrite
<1>7. ASSUME NEW w \in Windows, Hydrated(w)
      PROVE  DirtyHasAWrite'
  BY <1>7, CoreSyncAssumption
  DEF TypeOK, DirtyHasAWrite, Hydrated, HydrateWrites, Readable, history
<1>8. ASSUME NEW w \in Windows, NEW v \in Values, SaveEarly(w, v)
      PROVE  DirtyHasAWrite'
  BY <1>8, CoreSyncAssumption
  DEF TypeOK, DirtyHasAWrite, SaveEarly
<1>9. ASSUME NEW w \in Windows, NEW v \in Values, Save(w, v)
      PROVE  DirtyHasAWrite'
  BY <1>9, CoreSyncAssumption
  DEF TypeOK, DirtyHasAWrite, Save, Staging
<1>10. ASSUME NEW w \in Windows, NEW v \in Values, SaveNow(w, v)
      PROVE  DirtyHasAWrite'
<2>1. Append(sets[w], [value |-> v, served |-> FALSE, refused |-> FALSE]) # <<>>
  <3>1. [value |-> v, served |-> FALSE, refused |-> FALSE] \in Call
    BY <1>10 DEF TypeOK, Call, SaveNow
  <3>2. QED
    BY <3>1, AppendNotEmpty DEF TypeOK
<2>2. sets'[w] # <<>> /\ stage' = stage /\ failures' = failures
  BY <1>10, <2>1 DEF TypeOK, SaveNow, Posting
<2>3. ASSUME NEW x \in Windows, x # w
      PROVE  dirty'[x] = dirty[x] /\ pending'[x] = pending[x] /\ sets'[x] = sets[x]
  BY <1>10, <2>3 DEF TypeOK, SaveNow, Staging, Posting
<2>4. QED
  BY <2>2, <2>3 DEF DirtyHasAWrite
<1>11. ASSUME NEW w \in Windows, NEW i \in 1 .. Len(sets[w]), ServeSet(w, i)
      PROVE  DirtyHasAWrite'
<2>1. [sets[w] EXCEPT ![i] = [sets[w][i] EXCEPT !.served = TRUE]] # <<>>
  BY ElementOfSeq, ExceptSeq, EmptySeq, LenProperties DEF TypeOK, Call
<2>2. QED
  BY <1>11, <2>1 DEF TypeOK, DirtyHasAWrite, ServeSet, local
<1>12. ASSUME NEW w \in Windows, NEW i \in 1 .. Len(sets[w]), RefuseSet(w, i)
      PROVE  DirtyHasAWrite'
<2>1. failures' # 0
  BY <1>12 DEF RefuseSet, TypeOK
<2>2. QED
  BY <2>1 DEF DirtyHasAWrite
<1>13. ASSUME NEW w \in Windows, NEW i \in 1 .. Len(sets[w]), SetAnswered(w, i)
      PROVE  DirtyHasAWrite'
<2>1. sets[w][i].refused => failures > 0
  <3>1. sets[w][i] \in Posted(w)
    BY ElementOfSeq DEF CallsArePosted
  <3>2. QED
    BY <3>1 DEF Posted
<2>2. ASSUME NEW x \in Windows, x # w
      PROVE  dirty'[x] = dirty[x] /\ sets'[x] = sets[x]
  BY <1>13, <2>2 DEF SetAnswered, Acknowledge, TypeOK
<2>3. stage[w] = "on" /\ failures = 0 => ~dirty'[w]
  BY <1>13, <2>1 DEF SetAnswered, Acknowledge, TypeOK
<2>4. QED
  BY <1>13, <2>2, <2>3 DEF DirtyHasAWrite, SetAnswered
<1>14. ASSUME NEW w \in Windows, ServeRead(w)
      PROVE  DirtyHasAWrite'
  BY <1>14, CoreSyncAssumption
  DEF TypeOK, DirtyHasAWrite, ServeRead, local, history
<1>15. ASSUME NEW w \in Windows, RefuseRead(w)
      PROVE  DirtyHasAWrite'
<2>1. failures' # 0
  BY <1>15 DEF RefuseRead, TypeOK
<2>2. QED
  BY <2>1 DEF DirtyHasAWrite
<1>16. ASSUME NEW w \in Windows, NEW i \in 1 .. Len(answers[w]), ReadAnswered(w, i)
      PROVE  DirtyHasAWrite'
  BY <1>16, CoreSyncAssumption
  DEF TypeOK, DirtyHasAWrite, ReadAnswered, Adopts, history
<1>17. CASE UNCHANGED vars
  BY <1>17, CoreSyncAssumption
  DEF TypeOK, DirtyHasAWrite, vars, local, history
<1>18. QED
  BY <1>1, <1>2, <1>3, <1>4, <1>5, <1>6, <1>7, <1>8, <1>9, <1>10, <1>11, <1>12, <1>13, <1>14, <1>15, <1>16, <1>17 DEF Next

LEMMA Invariance == Spec => []IInv
<1>1. IInv /\ [Next]_vars => IInv'
  BY TypeStep, CallsStep, CleanStep, NewestStep, DirtyStep DEF IInv
<1>2. QED
  BY InitInv, <1>1, PTL DEF Spec

------------------------------------------------------------------------------
(* Every variable keeps to its type, on every host and for any windows. *)
THEOREM TypeCorrect == Spec => []TypeOK
<1>1. IInv => TypeOK
  BY DEF IInv
<1>2. QED
  BY Invariance, <1>1, PTL

(* What a window saved last is on its way or was sent (save, flush,
   pagehide). *)
THEOREM NewestWriteIsSent == Spec => []NewestIsSent
<1>1. IInv => NewestIsSent
  BY DEF IInv
<1>2. QED
  BY Invariance, <1>1, PTL

(* A window is deaf to others only while a write of its own is under way,
   or after a refused call (save, subscribe). *)
THEOREM DeafWindowsWrite == Spec => []DirtyHasAWrite
<1>1. IInv => DirtyHasAWrite
  BY DEF IInv
<1>2. QED
  BY Invariance, <1>1, PTL

(* The authority holds what it held or what a user saved: no read, no
   fallback and no cache of another build writes to it (read, hydrate). *)
THEOREM ReadingWritesNothing == Spec => OnlySavesReachDisk
<1> DEFINE Saved == disk' # disk => \E w \in Windows : disk' \in sent[w]
<1>1. ASSUME IInv, [Next]_vars PROVE Saved
  <2>1. ASSUME NEW w \in Windows, NEW i \in 1 .. Len(sets[w]), ServeSet(w, i)
        PROVE  Saved
    <3>1. sets[w][i].value \in sent[w]
      <4>1. sets[w][i] \in Posted(w)
        BY <1>1, ElementOfSeq DEF IInv, CallsArePosted
      <4>2. QED
        BY <4>1 DEF Posted
    <3>2. QED
      BY <2>1, <3>1 DEF ServeSet
  <2>2. ASSUME NEW w \in Windows,
               \/ Load(w) \/ Start(w) \/ Flush(w) \/ Close(w)
               \/ ServeHydrate(w) \/ RefuseHydrate(w) \/ Hydrated(w)
               \/ \E v \in Values : SaveEarly(w, v) \/ Save(w, v) \/ SaveNow(w, v)
               \/ \E i \in 1 .. Len(sets[w]) : RefuseSet(w, i) \/ SetAnswered(w, i)
               \/ ServeRead(w) \/ RefuseRead(w)
               \/ \E i \in 1 .. Len(answers[w]) : ReadAnswered(w, i)
        PROVE  disk' = disk
    BY <2>2 DEF Load, Start, Flush, Close, ServeHydrate, RefuseHydrate, Hydrated, HydrateWrites,
       SaveEarly, Save, SaveNow, RefuseSet, SetAnswered, ServeRead, RefuseRead, ReadAnswered
  <2>3. CASE UNCHANGED vars
    BY <2>3 DEF vars
  <2>4. QED
    BY <1>1, <2>1, <2>2, <2>3 DEF Next
<1>2. QED
  BY Invariance, <1>1, PTL DEF Spec, OnlySavesReachDisk
==============================================================================
