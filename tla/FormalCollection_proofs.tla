----------------------- MODULE FormalCollection_proofs -----------------------
(***************************************************************************)
(* Proofs about FormalCollection, for any calls, outputs, nonces and       *)
(* number of seeds.                                                        *)
(***************************************************************************)
EXTENDS FormalCollection, FiniteSetTheorems, TLAPS

Places == {"new", "authorized", "anchored", "marking", "locked", "measuring",
           "waiting", "publishing", "releasing", "unlocking", "done"}

CollectionTypeOK ==
    /\ call \in [Calls -> [at : Places, output : Outputs, nonce : Nonces, seeds : Nat]]
    /\ measured \in [Nonces -> SUBSET Calls]
    /\ output \in [Outputs -> Artifacts \cup {Absent, Partial}]
    /\ registry \in [Nonces -> Calls \cup {Absent, Partial}]
    /\ children \subseteq Calls
    /\ used \subseteq Nonces
    /\ registering \subseteq Artifacts
    /\ accepted \subseteq Artifacts

\* A call between the creation and the removal of its marker.
Marking(c) == call[c].at \in {"marking", "locked", "measuring", "waiting",
                              "publishing", "releasing"}

\* The marker is the call's that is between its creation and removal, and of the
\* call whose child runs, which is waiting for it or dead.
MarkerGuards ==
    /\ \A c \in Calls : Marking(c) => marker = c
    /\ \A c \in children : marker = c /\ call[c].at \in {"waiting", "done"}

\* A call that has passed the consumption of its nonce.
Consumed(c) == call[c].at \in {"measuring", "waiting", "publishing"}

\* A call that has measured nothing yet.
Fresh(c) == call[c].at \in {"new", "authorized", "anchored", "marking", "locked"}

\* A consumed nonce is held by one call under way at most, and nobody else has
\* measured under it.
NonceHeld ==
    /\ \A n \in Nonces \ used : measured[n] = {}
    /\ \A c \in Calls : Fresh(c) => call[c].seeds = 0
    /\ \A c \in Calls : Consumed(c) => /\ call[c].nonce \in used
                                       /\ measured[call[c].nonce] \subseteq {c}
    /\ \A c \in Calls : call[c].at = "publishing" => measured[call[c].nonce] = {c}
    /\ \A c \in Calls : call[c].at = "waiting" \/ (Consumed(c) /\ call[c].seeds > 0)
                            => c \in measured[call[c].nonce]
    /\ \A c, d \in Calls : Consumed(c) /\ Consumed(d) /\ call[c].nonce = call[d].nonce => c = d

\* An artifact, wherever it is, is the one that was measured under its nonce.
Known == {a \in Artifacts : \E o \in Outputs : output[o] = a} \cup registering \cup accepted

NonceNames ==
    /\ \A n \in Nonces : \A c, d \in measured[n] : c = d
    /\ \A a \in Known : measured[a.nonce] = {a.call}

CollectionInvariant == CollectionTypeOK /\ MarkerGuards /\ NonceHeld /\ NonceNames

-----------------------------------------------------------------------------
LEMMA InvariantInitially == CollectionInit => CollectionInvariant
  BY CollectionConstants DEF CollectionConstants, CollectionInit, CollectionInvariant, CollectionTypeOK, Places,
     MarkerGuards, Marking, NonceHeld, Fresh, Consumed, NonceNames, Known, Artifacts

\* A step to another place keeps the call's other fields and the other calls.
LEMMA GoesMoves ==
    ASSUME CollectionTypeOK, NEW c \in Calls, NEW place \in Places, Goes(c, place)
    PROVE  /\ call' \in [Calls -> [at : Places, output : Outputs, nonce : Nonces, seeds : Nat]]
           /\ call'[c].at = place
           /\ call'[c].nonce = call[c].nonce
           /\ call'[c].output = call[c].output
           /\ call'[c].seeds = call[c].seeds
           /\ \A d \in Calls \ {c} : call'[d] = call[d]
  BY DEF CollectionTypeOK, Goes

\* A call that measures nothing in this step, and is past the measurement of its
\* nonce only if it measured, leaves the nonces held as they are.
LEMMA HeldStays ==
    ASSUME NonceHeld, NEW c \in Calls, used \subseteq used', UNCHANGED measured,
           \A d \in Calls \ {c} : call'[d] = call[d],
           call'[c].nonce = call[c].nonce,
           Fresh(c)' => Fresh(c) /\ call'[c].seeds = call[c].seeds,
           Consumed(c)' => Consumed(c) /\ c \in measured[call[c].nonce],
           call'[c].at = "publishing" => measured[call[c].nonce] = {c}
    PROVE  NonceHeld'
<1>1. \A d \in Calls : /\ Consumed(d)' => Consumed(d)
                       /\ Fresh(d)' => Fresh(d) /\ call'[d].seeds = call[d].seeds
                       /\ call'[d].nonce = call[d].nonce
  BY DEF Consumed, Fresh
<1>2. (\A n \in Nonces \ used : measured[n] = {})'
  BY DEF NonceHeld
<1>3. (\A d \in Calls : Fresh(d) => call[d].seeds = 0)'
  BY <1>1 DEF NonceHeld, Fresh
<1>4. (\A d \in Calls : Consumed(d) => /\ call[d].nonce \in used
                                       /\ measured[call[d].nonce] \subseteq {d})'
  BY <1>1 DEF NonceHeld, Consumed
<1>5. (\A d \in Calls : call[d].at = "publishing" => measured[call[d].nonce] = {d})'
  BY DEF NonceHeld
<1>6. (\A d \in Calls : call[d].at = "waiting" \/ (Consumed(d) /\ call[d].seeds > 0)
                            => d \in measured[call[d].nonce])'
  BY DEF NonceHeld, Consumed
<1>7. ASSUME NEW d \in Calls, NEW e \in Calls, Consumed(d)', Consumed(e)',
             call'[d].nonce = call'[e].nonce
      PROVE  d = e
  BY <1>1, <1>7 DEF NonceHeld, Consumed
<1> QED
  BY <1>2, <1>3, <1>4, <1>5, <1>6, <1>7 DEF NonceHeld

\* Steps of the marker's life: everything but the marker, the lock and the place.
LEMMA LockStepsKeep ==
    ASSUME CollectionInvariant, NEW c \in Calls,
           \/ Preflight(c) \/ AcquireAnchor(c) \/ CreateMarker(c) \/ WriteMarker(c)
           \/ FailUnderLock(c) \/ RemoveMarker(c) \/ ReleaseAnchor(c) \/ CallDies(c)
    PROVE  CollectionInvariant'
<1> USE DEF CollectionInvariant
<1>1. PICK place \in Places : Goes(c, place) /\ place \notin {"measuring", "waiting", "publishing"}
  BY DEF Preflight, AcquireAnchor, CreateMarker, WriteMarker, FailUnderLock, RemoveMarker,
         ReleaseAnchor, CallDies, Places
<1>2. UNCHANGED <<children, measured, fileVars>>
  BY DEF Preflight, AcquireAnchor, CreateMarker, WriteMarker, FailUnderLock, RemoveMarker,
         ReleaseAnchor, CallDies
<1>3. /\ call' \in [Calls -> [at : Places, output : Outputs, nonce : Nonces, seeds : Nat]]
      /\ call'[c].at = place /\ call'[c].nonce = call[c].nonce
      /\ \A d \in Calls \ {c} : call'[d] = call[d]
  BY <1>1, GoesMoves
<1>4. CollectionTypeOK'
  BY <1>2, <1>3 DEF CollectionTypeOK, fileVars
<1>5. ~Consumed(c)' /\ call'[c].at # "publishing"
  BY <1>1, <1>3 DEF Consumed
<1>6. NonceHeld'
  <2>1. (Fresh(c)' => Fresh(c)) /\ call'[c].seeds = call[c].seeds
    BY GoesMoves DEF Preflight, AcquireAnchor, CreateMarker, WriteMarker, FailUnderLock,
       RemoveMarker, ReleaseAnchor, CallDies, At, Fresh, Places
  <2> QED
    BY <1>1, <1>2, <1>3, <1>5, <2>1, HeldStays DEF fileVars
<1>7. NonceNames'
  BY <1>2 DEF NonceNames, Known, fileVars
<1>8. children' = children /\ children \subseteq Calls
  BY <1>2 DEF CollectionTypeOK
<1>9. MarkerGuards'
  <2>1. CASE CreateMarker(c)
    <3>1. CASE marker' = c /\ marker = None
      <4>1. \A d \in Calls : ~Marking(d)
        BY <3>1, CollectionConstants DEF MarkerGuards, CollectionConstants
      <4>2. children = {}
        BY <3>1, CollectionConstants DEF MarkerGuards, CollectionConstants, CollectionTypeOK
      <4> QED
        BY <1>8, <1>3, <3>1, <4>1, <4>2 DEF MarkerGuards, Marking
    <3>2. CASE UNCHANGED marker /\ Goes(c, "unlocking")
      <4>1. call'[c].at = "unlocking" /\ c \notin children
        BY <2>1, <3>2, GoesMoves DEF Places, CreateMarker, At, MarkerGuards
      <4> QED
        BY <1>8, <1>3, <3>2, <4>1 DEF MarkerGuards, Marking
    <3> QED
      BY <2>1, <3>1, <3>2 DEF CreateMarker
  <2>2. CASE RemoveMarker(c)
    <3>1. marker = c /\ c \notin children /\ call'[c].at = "unlocking"
      BY <2>2, GoesMoves DEF RemoveMarker, At, MarkerGuards, Marking, Places
    <3>2. children = {} /\ \A d \in Calls \ {c} : ~Marking(d)
      BY <3>1 DEF MarkerGuards, CollectionTypeOK
    <3> QED
      BY <1>8, <1>3, <3>1, <3>2 DEF MarkerGuards, Marking
  <2>3. CASE CallDies(c)
    <3>1. call'[c].at = "done" /\ UNCHANGED marker
      BY <2>3, GoesMoves DEF CallDies, Places
    <3> QED
      BY <1>8, <1>3, <3>1 DEF MarkerGuards, Marking
  <2>4. CASE Preflight(c) \/ AcquireAnchor(c) \/ WriteMarker(c) \/ FailUnderLock(c) \/ ReleaseAnchor(c)
    <3>1. UNCHANGED marker /\ c \notin children /\ (Marking(c)' => Marking(c))
      BY <2>4, GoesMoves DEF Preflight, AcquireAnchor, WriteMarker, FailUnderLock, ReleaseAnchor,
         At, MarkerGuards, Marking, Places
    <3> QED
      BY <1>8, <1>3, <3>1 DEF MarkerGuards, Marking
  <2> QED
    BY <2>1, <2>2, <2>3, <2>4
<1> QED
  BY <1>4, <1>6, <1>7, <1>9
-----------------------------------------------------------------------------
LEMMA ConsumeNonceKeeps ==
    ASSUME CollectionInvariant, NEW c \in Calls, ConsumeNonce(c)
    PROVE  CollectionInvariant'
<1> USE DEF CollectionInvariant
<1>1. /\ At(c, "locked")
      /\ UNCHANGED <<marker, output, children, registry, registering, measured, accepted>>
      /\ used \subseteq used' /\ used' \subseteq used \cup {call[c].nonce}
  BY DEF ConsumeNonce
<1>2. Marking(c) /\ Marking(c)' /\ c \notin children
  BY GoesMoves DEF ConsumeNonce, Marking, At, MarkerGuards, Places
<1>3. /\ call' \in [Calls -> [at : Places, output : Outputs, nonce : Nonces, seeds : Nat]]
      /\ call'[c].nonce = call[c].nonce
      /\ call'[c].at \in {"measuring", "releasing"}
      /\ \A d \in Calls \ {c} : call'[d] = call[d]
  BY GoesMoves DEF ConsumeNonce, Places
<1>4. CollectionTypeOK'
  BY <1>1, <1>3 DEF CollectionTypeOK
<1>5. MarkerGuards'
  BY <1>1, <1>2, <1>3 DEF MarkerGuards, Marking, CollectionTypeOK
<1>6. call'[c].at = "measuring" =>
          /\ call[c].nonce \notin used /\ call[c].nonce \in used'
          /\ call'[c].seeds = call[c].seeds
  BY GoesMoves DEF ConsumeNonce, Places
<1>7. NonceNames'
  BY <1>1 DEF NonceNames, Known
<1>8. NonceHeld'
  <2>1. CASE call'[c].at = "measuring"
    <3> DEFINE n == call[c].nonce
    <3>1. call[c].seeds = 0 /\ n \in Nonces /\ n \notin used /\ n \in used' /\ measured[n] = {}
      BY <1>1, <1>6, <2>1 DEF NonceHeld, Fresh, At, CollectionTypeOK
    <3>2. /\ ~Fresh(c)' /\ call'[c].seeds = 0 /\ call'[c].nonce = n
          /\ \A d \in Calls \ {c} : call'[d] = call[d] /\ (Consumed(d) => call[d].nonce # n)
      BY <1>3, <1>6, <2>1, <3>1 DEF Fresh, NonceHeld
    <3>3. UNCHANGED measured /\ used \subseteq used'
      BY <1>1
    <3> HIDE DEF n
    <3> QED
      BY <2>1, <3>1, <3>2, <3>3 DEF NonceHeld, Fresh, Consumed
  <2>2. CASE call'[c].at = "releasing"
    <3>1. ~Consumed(c)' /\ ~Fresh(c)'
      BY <2>2 DEF Consumed, Fresh
    <3> QED
      BY <1>1, <1>3, <2>2, <3>1, HeldStays
  <2> QED
    BY <1>3, <2>1, <2>2
<1> QED
  BY <1>4, <1>5, <1>7, <1>8

LEMMA StartSeedKeeps ==
    ASSUME CollectionInvariant, NEW c \in Calls, StartSeed(c)
    PROVE  CollectionInvariant'
<1> USE DEF CollectionInvariant
<1> DEFINE n == call[c].nonce
<1>1. /\ At(c, "measuring") /\ n \in Nonces
      /\ UNCHANGED <<marker, used, output, registry, registering, accepted>>
      /\ children' = children \cup {c}
      /\ measured' = [measured EXCEPT ![n] = @ \cup {c}]
  BY DEF StartSeed, fileVars, CollectionTypeOK
<1>2. /\ call' \in [Calls -> [at : Places, output : Outputs, nonce : Nonces, seeds : Nat]]
      /\ call'[c].nonce = call[c].nonce
      /\ call'[c].at = "waiting"
      /\ \A d \in Calls \ {c} : call'[d] = call[d]
  BY GoesMoves DEF StartSeed, Places
<1>3. n \in used /\ measured[n] \subseteq {c}
  BY <1>1 DEF NonceHeld, Consumed, At
<1>4. measured'[n] = {c} /\ \A k \in Nonces \ {n} : measured'[k] = measured[k]
  BY <1>1, <1>3 DEF CollectionTypeOK
<1>5. CollectionTypeOK'
  BY <1>1, <1>2 DEF CollectionTypeOK
<1>6. MarkerGuards'
  BY <1>1, <1>2 DEF MarkerGuards, Marking, At, CollectionTypeOK
<1>7. NonceHeld'
  <2>1. \A d \in Calls \ {c} : Consumed(d) => call[d].nonce # n
    BY <1>1 DEF NonceHeld, Consumed, At
  <2>2. \A d \in Calls \ {c} : call[d].nonce \in Nonces
    BY DEF CollectionTypeOK
  <2>3. \A d \in Calls \ {c} : Consumed(d) => measured'[call[d].nonce] = measured[call[d].nonce]
    BY <1>4, <2>1, <2>2
  <2>4. Consumed(c)
    BY <1>1 DEF Consumed, At
  <2>5. /\ ~Fresh(c)' /\ Consumed(c)'
        /\ \A d \in Calls \ {c} : /\ Consumed(d)' <=> Consumed(d)
                                 /\ Fresh(d)' <=> Fresh(d)
    BY <1>2 DEF Fresh, Consumed
  <2>6. (\A k \in Nonces \ used : measured[k] = {})'
    BY <1>1, <1>3, <1>4 DEF NonceHeld
  <2>7. ASSUME NEW d \in Calls, Fresh(d)'
        PROVE  call'[d].seeds = 0
    <3>1. d # c /\ Fresh(d)
      BY <1>2, <2>7 DEF Fresh
    <3> QED
      BY <1>2, <3>1 DEF NonceHeld
  <2>8. ASSUME NEW d \in Calls, Consumed(d)'
        PROVE  call'[d].nonce \in used' /\ measured'[call'[d].nonce] \subseteq {d}
    <3>1. CASE d = c
      BY <1>1, <1>2, <1>3, <1>4, <3>1
    <3>2. CASE d # c
      <4>1. Consumed(d) /\ call'[d] = call[d]
        BY <1>2, <2>8, <3>2 DEF Consumed
      <4>2. call[d].nonce \in used /\ measured[call[d].nonce] \subseteq {d}
        BY <4>1 DEF NonceHeld
      <4> QED
        BY <1>1, <2>3, <3>2, <4>1, <4>2
    <3> QED
      BY <3>1, <3>2
  <2>9. (\A d \in Calls : call[d].at = "publishing" => measured[call[d].nonce] = {d})'
    BY <1>2, <2>3 DEF NonceHeld, Consumed
  <2>10. (\A d \in Calls : call[d].at = "waiting" \/ (Consumed(d) /\ call[d].seeds > 0)
                              => d \in measured[call[d].nonce])'
    BY <1>2, <1>4, <2>3, <2>5 DEF NonceHeld, Consumed
  <2>11. ASSUME NEW d \in Calls, NEW e \in Calls, Consumed(d)', Consumed(e)',
                call'[d].nonce = call'[e].nonce
         PROVE  d = e
    <3>1. Consumed(d) /\ Consumed(e)
      BY <1>2, <2>4, <2>11 DEF Consumed
    <3>2. call'[d].nonce = call[d].nonce /\ call'[e].nonce = call[e].nonce
      BY <1>2
    <3> QED
      BY <2>11, <3>1, <3>2 DEF NonceHeld
  <2> QED
    BY <2>6, <2>7, <2>8, <2>9, <2>10, <2>11 DEF NonceHeld
<1>8. NonceNames'
  <2>1. Known' = Known
    BY <1>1 DEF Known
  <2>2. \A a \in Known : a.nonce = n => a.call = c
    BY <1>3 DEF NonceNames
  <2>3. \A a \in Known : a.nonce \in Nonces
    BY DEF Known, CollectionTypeOK, Artifacts
  <2> QED
    BY <1>4, <2>1, <2>2, <2>3 DEF NonceNames
<1> QED
  BY <1>5, <1>6, <1>7, <1>8

LEMMA EndSeedKeeps ==
    ASSUME CollectionInvariant, NEW c \in Calls, EndSeed(c)
    PROVE  CollectionInvariant'
<1> USE DEF CollectionInvariant
<1>1. /\ At(c, "waiting")
      /\ UNCHANGED <<marker, measured, used, output, registry, registering, accepted>>
      /\ children' = children \ {c}
  BY DEF EndSeed, fileVars
<1>2. /\ call' \in [Calls -> [at : Places, output : Outputs, nonce : Nonces, seeds : Nat]]
      /\ call'[c].nonce = call[c].nonce
      /\ call'[c].at \in {"measuring", "releasing"}
      /\ \A d \in Calls \ {c} : call'[d] = call[d]
  BY GoesMoves DEF EndSeed, Places, CollectionTypeOK
<1>3. CollectionTypeOK'
  BY <1>1, <1>2 DEF CollectionTypeOK
<1>4. MarkerGuards'
  BY <1>1, <1>2 DEF MarkerGuards, Marking, At, CollectionTypeOK
<1>5. NonceHeld'
  <2>1. ~Fresh(c)' /\ Consumed(c) /\ c \in measured[call[c].nonce]
    BY <1>1, <1>2 DEF Fresh, Consumed, At, NonceHeld
  <2> QED
    BY <1>1, <1>2, <2>1, HeldStays
<1>6. NonceNames'
  BY <1>1 DEF NonceNames, Known
<1> QED
  BY <1>3, <1>4, <1>5, <1>6

LEMMA OutputKeeps ==
    ASSUME CollectionInvariant, NEW c \in Calls, CreateOutput(c) \/ WriteOutput(c)
    PROVE  CollectionInvariant'
<1> USE DEF CollectionInvariant
<1> DEFINE artifact == [nonce |-> call[c].nonce, call |-> c]
<1>1. /\ UNCHANGED <<marker, measured, used, children, registry, registering, accepted>>
      /\ call[c].at \in {"measuring", "publishing"}
      /\ call[c].at = "measuring" => call[c].seeds = Seeds
  BY DEF CreateOutput, WriteOutput, At
<1>2. /\ call' \in [Calls -> [at : Places, output : Outputs, nonce : Nonces, seeds : Nat]]
      /\ call'[c].nonce = call[c].nonce
      /\ call'[c].seeds = call[c].seeds
      /\ call'[c].at \in {"publishing", "releasing"}
      /\ \A d \in Calls \ {c} : call'[d] = call[d]
  BY GoesMoves DEF CreateOutput, WriteOutput, Places
<1>3. measured[call[c].nonce] = {c}
  BY <1>1, CollectionConstants DEF CollectionConstants, NonceHeld, Consumed, CollectionTypeOK
<1>4. artifact \in Artifacts
  BY DEF CollectionTypeOK, Artifacts
<1>5. /\ output' \in [Outputs -> Artifacts \cup {Absent, Partial}]
      /\ \A o \in Outputs : output'[o] \in {output[o], artifact, Partial}
  BY <1>4 DEF CreateOutput, WriteOutput, CollectionTypeOK
<1>6. CollectionTypeOK'
  BY <1>1, <1>2, <1>5 DEF CollectionTypeOK
<1>7. MarkerGuards'
  BY <1>1, <1>2 DEF MarkerGuards, Marking, CollectionTypeOK
<1>8. NonceHeld'
  <2>1. ~Fresh(c)' /\ Consumed(c)
    BY <1>1, <1>2 DEF Fresh, Consumed
  <2> QED
    BY <1>1, <1>2, <1>3, <2>1, HeldStays
<1>9. NonceNames'
  <2>1. Known' \subseteq Known \cup {artifact}
    BY <1>1, <1>5, CollectionConstants DEF Known, CollectionConstants
  <2> QED
    BY <1>1, <1>3, <2>1 DEF NonceNames
<1> QED
  BY <1>6, <1>7, <1>8, <1>9

\* What is left: orphans, the auditor and the verifications.
LEMMA OutsideKeeps ==
    ASSUME CollectionInvariant,
           \/ \E c \in Calls : OrphanEnds(c)
           \/ DisposeOfMarker \/ \E o \in Outputs : DisposeOfOutput(o)
           \/ \E a \in Artifacts : Verification(a)
    PROVE  CollectionInvariant'
<1> USE DEF CollectionInvariant
<1>1. /\ UNCHANGED <<call, used, measured>>
      /\ children' \subseteq children
      /\ Known' \subseteq Known
  <2>1. CASE \E c \in Calls : OrphanEnds(c)
    BY <2>1 DEF OrphanEnds, Known, fileVars
  <2>2. CASE DisposeOfMarker
    BY <2>2 DEF DisposeOfMarker, Known, fileVars
  <2>3. CASE \E o \in Outputs : DisposeOfOutput(o)
    <3>1. \A o \in Outputs : output'[o] \in {output[o], Absent}
      BY <2>3 DEF DisposeOfOutput, CollectionTypeOK
    <3> QED
      BY <2>3, <3>1, CollectionConstants DEF DisposeOfOutput, Known, CollectionConstants
  <2>4. CASE \E a \in Artifacts : Verification(a)
    BY <2>4 DEF Verification, OpenRegistration, RepeatRegistration, WriteRegistration,
       LoseRegistration, Registering, Known
  <2> QED
    BY <2>1, <2>2, <2>3, <2>4
<1>2. CollectionTypeOK'
  BY <1>1 DEF OrphanEnds, DisposeOfMarker, DisposeOfOutput, Verification, OpenRegistration,
     RepeatRegistration, WriteRegistration, LoseRegistration, Registering, CollectionTypeOK,
     fileVars, Artifacts
<1>3. MarkerGuards'
  <2>1. CASE DisposeOfMarker
    <3>1. children = {} /\ \A c \in Calls : ~Marking(c)
      BY <2>1 DEF DisposeOfMarker, At, MarkerGuards, Marking, CollectionTypeOK
    <3> QED
      BY <1>1, <3>1 DEF MarkerGuards, Marking
  <2>2. CASE UNCHANGED marker
    BY <1>1, <2>2 DEF MarkerGuards, Marking
  <2> QED
    BY <2>1, <2>2 DEF OrphanEnds, DisposeOfOutput, Verification, OpenRegistration,
       RepeatRegistration, WriteRegistration, LoseRegistration, Registering
<1>4. NonceHeld'
  BY <1>1 DEF NonceHeld, Fresh, Consumed
<1>5. NonceNames'
  BY <1>1 DEF NonceNames
<1> QED
  BY <1>2, <1>3, <1>4, <1>5

LEMMA InvariantKept ==
    ASSUME CollectionInvariant, [CollectionNext]_collectionVars
    PROVE  CollectionInvariant'
<1>1. ASSUME NEW c \in Calls, CallStep(c) \/ CallDies(c)
      PROVE  CollectionInvariant'
  BY <1>1, LockStepsKeep, ConsumeNonceKeeps, StartSeedKeeps, EndSeedKeeps, OutputKeeps DEF CallStep
<1>2. CASE \/ \E c \in Calls : OrphanEnds(c)
           \/ DisposeOfMarker \/ \E o \in Outputs : DisposeOfOutput(o)
           \/ \E a \in Artifacts : Verification(a)
  BY <1>2, OutsideKeeps
<1>3. CASE UNCHANGED collectionVars
  BY <1>3 DEF collectionVars, CollectionInvariant, CollectionTypeOK, MarkerGuards, Marking,
     NonceHeld, Fresh, Consumed, NonceNames, Known
<1> QED
  BY <1>1, <1>2, <1>3 DEF CollectionNext

LEMMA InvariantHolds == CollectionSpec => []CollectionInvariant
<1> QED
  BY InvariantInitially, InvariantKept, PTL DEF CollectionSpec

-----------------------------------------------------------------------------
\* One seed child measures at a time, whichever calls fail or die: the child's
\* call owns the marker.
THEOREM ExclusiveMeasurement == CollectionSpec => []MeasurementsDisjoint
<1>1. CollectionInvariant => MeasurementsDisjoint
  <2> SUFFICES ASSUME CollectionInvariant
               PROVE  MeasurementsDisjoint
    OBVIOUS
  <2>1. children \subseteq {marker}
    BY DEF CollectionInvariant, MarkerGuards
  <2>2. IsFiniteSet({marker}) /\ Cardinality({marker}) = 1
    BY FS_Singleton
  <2> QED
    BY <2>1, <2>2, FS_Subset DEF MeasurementsDisjoint
<1> QED
  BY <1>1, InvariantHolds, PTL

\* A nonce stands for one measurement, one artifact and one verified artifact.
THEOREM NonceBinding == CollectionSpec => []NonceBindsOneCall
<1>1. CollectionInvariant => NonceBindsOneCall
  <2> SUFFICES ASSUME CollectionInvariant, NEW n \in Nonces
               PROVE  /\ Cardinality(measured[n]) <= 1
                      /\ \A a \in Artifacts :
                            a.nonce = n /\ (a \in accepted \/ \E o \in Outputs : output[o] = a)
                                => measured[n] = {a.call}
    BY DEF NonceBindsOneCall
  <2>1. Cardinality(measured[n]) <= 1
    <3>1. measured[n] = {} \/ \E c \in Calls : measured[n] = {c}
      BY DEF CollectionInvariant, NonceNames, CollectionTypeOK
    <3> QED
      BY <3>1, FS_EmptySet, FS_Singleton
  <2> QED
    BY <2>1 DEF CollectionInvariant, NonceNames, Known
<1> QED
  BY <1>1, InvariantHolds, PTL
=============================================================================
