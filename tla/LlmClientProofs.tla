--------------------------- MODULE LlmClientProofs ---------------------------
(***************************************************************************)
(* What holds of the LLM client for any callers, providers and bounds.     *)
(***************************************************************************)
EXTENDS LlmClient, FiniteSetTheorems, TLAPS

(* A call backs off only while it has retries left. *)
BackOffCounted == \A c \in Caller : pc[c] = "backoff" => attempts[c] < MaxRetries

(* The rows under a user's own key, and the answers its streams are about  *)
(* to store or hand out, were given by its provider.                       *)
OwnRows == \A k \in Provider : cache[k] # Empty => cache[k].origin = k

OwnAnswers ==
    \A c \in Caller :
        mode[c] = "stream" /\ who[c] # Platform /\ pc[c] \in {"store", "served"}
            => origin[c] = who[c]

(* The calls that hold a slot of the gate, and what they leave of it. *)
Holders == {c \in Caller : Holds(c)}

Counted == IsFiniteSet(Holders) /\ free + Cardinality(Holders) = Slots

Typed == TypeOK /\ BackOffCounted
Owned == OwnRows /\ OwnAnswers
-----------------------------------------------------------------------------
(* A new client: the gate is full, nobody calls, the cache is empty. *)
LEMMA InitInv == Init => Typed /\ Owned
BY GateAssumption DEF GateAssumption, Init, Typed, TypeOK, BackOffCounted, Owned,
   OwnRows, OwnAnswers, Owner, Entry, Empty, Texts

(* Every step of a call writes values of their types, and retries are      *)
(* counted up to their limit only.                                         *)
LEMMA NextTyped == Typed /\ [Next]_vars => Typed'
<1> SUFFICES ASSUME Typed, [Next]_vars PROVE Typed'
    OBVIOUS
<1> USE GateAssumption DEF GateAssumption, Typed, TypeOK, BackOffCounted, Owner, Entry,
        Empty, Texts, Goto, call, got
<1>0. ASSUME NEW c \in Caller, NEW m \in {"plain", "stream"}, NEW p \in Owner, Call(c, m, p)
      PROVE Typed'
    BY <1>0 DEF Call
<1>1. ASSUME NEW c \in Caller, Hit(c) PROVE Typed'
    BY <1>1 DEF Hit, Key, Empty
<1>2. ASSUME NEW c \in Caller, Miss(c) PROVE Typed'
    BY <1>2 DEF Miss
<1>3. ASSUME NEW c \in Caller, Acquire(c) PROVE Typed'
    BY <1>3 DEF Acquire
<1>4. ASSUME NEW c \in Caller, AcquireTimesOut(c) PROVE Typed'
    BY <1>4 DEF AcquireTimesOut
<1>5. ASSUME NEW c \in Caller, Answered(c) PROVE Typed'
    BY <1>5 DEF Answered, Posting, Release, Gets
<1>6. ASSUME NEW c \in Caller, Unusable(c) PROVE Typed'
    BY <1>6 DEF Unusable, Posting, Release
<1>7. ASSUME NEW c \in Caller, BackOff(c) PROVE Typed'
    BY <1>7 DEF BackOff, Posting
<1>8. ASSUME NEW c \in Caller, TryAgain(c) PROVE Typed'
    BY <1>8 DEF TryAgain, Release
<1>9. ASSUME NEW c \in Caller, FallBack(c) PROVE Typed'
    BY <1>9 DEF FallBack, Posting, Release
<1>10. ASSUME NEW c \in Caller, Curl(c) PROVE Typed'
    BY <1>10 DEF Curl, Gets
<1>11. ASSUME NEW c \in Caller, Piece(c) PROVE Typed'
    BY <1>11 DEF Piece, Posting, Gets
<1>12. ASSUME NEW c \in Caller, StreamEnds(c) PROVE Typed'
    BY <1>12 DEF StreamEnds, Posting, Release, Gets
<1>13. ASSUME NEW c \in Caller, StreamBreaks(c) PROVE Typed'
    BY <1>13 DEF StreamBreaks, Posting
<1>14. ASSUME NEW c \in Caller, CurlStream(c) PROVE Typed'
    BY <1>14 DEF CurlStream, Release, Gets
<1>15. ASSUME NEW c \in Caller, CurlStreamFails(c) PROVE Typed'
    BY <1>15 DEF CurlStreamFails, Release
<1>16. ASSUME NEW c \in Caller, Abandon(c) PROVE Typed'
    BY <1>16 DEF Abandon, AtPiece, Release
<1>17. ASSUME NEW c \in Caller, Store(c) PROVE Typed'
    BY <1>17 DEF Store, Key, Empty
<1>18. ASSUME NEW c \in Caller, Return(c) PROVE Typed'
    BY <1>18 DEF Return
<1>19. ASSUME NEW k \in Owner, Expire(k) PROVE Typed'
    BY <1>19 DEF Expire, Empty
<1>20. CASE UNCHANGED vars
    BY <1>20 DEF vars
<1>21. QED
    BY <1>0, <1>1, <1>2, <1>3, <1>4, <1>5, <1>6, <1>7, <1>8, <1>9, <1>10,
       <1>11, <1>12, <1>13, <1>14, <1>15, <1>16, <1>17, <1>18, <1>19,
       <1>20 DEF Next, Step

(* An answer enters a user's own row only from a call with that key, and a *)
(* stream leaves the look-up only with an answer of its own row.           *)
LEMMA NextOwned == Typed /\ Owned /\ [Next]_vars => Owned'
<1> SUFFICES ASSUME Typed, Owned, [Next]_vars PROVE Owned'
    OBVIOUS
<1> USE GateAssumption DEF GateAssumption, Typed, TypeOK, Owned, OwnRows, OwnAnswers, Owner,
        Entry, Goto, call, got
<1>0. ASSUME NEW c \in Caller, NEW m \in {"plain", "stream"}, NEW p \in Owner, Call(c, m, p)
      PROVE Owned'
    BY <1>0 DEF Call
<1>1. ASSUME NEW c \in Caller, Hit(c) PROVE Owned'
    BY <1>1 DEF Hit, Key, Empty
<1>2. ASSUME NEW c \in Caller, Miss(c) PROVE Owned'
    BY <1>2 DEF Miss
<1>3. ASSUME NEW c \in Caller, Acquire(c) PROVE Owned'
    BY <1>3 DEF Acquire
<1>4. ASSUME NEW c \in Caller, AcquireTimesOut(c) PROVE Owned'
    BY <1>4 DEF AcquireTimesOut
<1>5. ASSUME NEW c \in Caller, Answered(c) PROVE Owned'
    BY <1>5 DEF Answered, Posting, Release, Gets
<1>6. ASSUME NEW c \in Caller, Unusable(c) PROVE Owned'
    BY <1>6 DEF Unusable, Posting, Release
<1>7. ASSUME NEW c \in Caller, BackOff(c) PROVE Owned'
    BY <1>7 DEF BackOff, Posting
<1>8. ASSUME NEW c \in Caller, TryAgain(c) PROVE Owned'
    BY <1>8 DEF TryAgain, Release
<1>9. ASSUME NEW c \in Caller, FallBack(c) PROVE Owned'
    BY <1>9 DEF FallBack, Posting, Release
<1>10. ASSUME NEW c \in Caller, Curl(c) PROVE Owned'
    BY <1>10 DEF Curl, Gets
<1>11. ASSUME NEW c \in Caller, Piece(c) PROVE Owned'
    BY <1>11 DEF Piece, Posting, Gets
<1>12. ASSUME NEW c \in Caller, StreamEnds(c) PROVE Owned'
    BY <1>12 DEF StreamEnds, Posting, Release, Gets
<1>13. ASSUME NEW c \in Caller, StreamBreaks(c) PROVE Owned'
    BY <1>13 DEF StreamBreaks, Posting
<1>14. ASSUME NEW c \in Caller, CurlStream(c) PROVE Owned'
    BY <1>14 DEF CurlStream, Release, Gets
<1>15. ASSUME NEW c \in Caller, CurlStreamFails(c) PROVE Owned'
    BY <1>15 DEF CurlStreamFails, Release
<1>16. ASSUME NEW c \in Caller, Abandon(c) PROVE Owned'
    BY <1>16 DEF Abandon, AtPiece, Release
<1>17. ASSUME NEW c \in Caller, Store(c) PROVE Owned'
    BY <1>17 DEF Store, Key, Empty
<1>18. ASSUME NEW c \in Caller, Return(c) PROVE Owned'
    BY <1>18 DEF Return
<1>19. ASSUME NEW k \in Owner, Expire(k) PROVE Owned'
    BY <1>19 DEF Expire, Empty
<1>20. CASE UNCHANGED vars
    BY <1>20 DEF vars
<1>21. QED
    BY <1>0, <1>1, <1>2, <1>3, <1>4, <1>5, <1>6, <1>7, <1>8, <1>9, <1>10,
       <1>11, <1>12, <1>13, <1>14, <1>15, <1>16, <1>17, <1>18, <1>19,
       <1>20 DEF Next, Step

(* A step keeps the holders, adds one that takes a slot, or removes one    *)
(* that gives it back: the count is kept by the theorems on finite sets.   *)
Keeps == Holders' = Holders /\ free' = free
Gives == \E c \in Holders : Holders' = Holders \ {c} /\ free' = free + 1
Takes == \E c \in Caller \ Holders : Holders' = Holders \cup {c} /\ free' = free - 1

(* Whatever of the three a step does, the count still holds after it. *)
LEMMA SlotStep == TypeOK /\ Counted /\ (Keeps \/ Gives \/ Takes) => Counted'
<1> SUFFICES ASSUME TypeOK, Counted, Keeps \/ Gives \/ Takes PROVE Counted'
    OBVIOUS
<1> USE GateAssumption DEF GateAssumption, Counted
<1>1. free \in Nat /\ Cardinality(Holders) \in Nat
    BY FS_CardinalityType DEF TypeOK
<1>2. CASE Keeps
    BY <1>2 DEF Keeps
<1>3. CASE Gives
    <2>1. PICK c \in Holders : Holders' = Holders \ {c} /\ free' = free + 1
        BY <1>3 DEF Gives
    <2>2. /\ IsFiniteSet(Holders \ {c})
          /\ Cardinality(Holders \ {c}) = Cardinality(Holders) - 1
        BY FS_RemoveElement
    <2> QED
        BY <1>1, <2>1, <2>2
<1>4. CASE Takes
    <2>1. PICK c \in Caller \ Holders :
              Holders' = Holders \cup {c} /\ free' = free - 1
        BY <1>4 DEF Takes
    <2>2. /\ IsFiniteSet(Holders \cup {c})
          /\ Cardinality(Holders \cup {c}) = Cardinality(Holders) + 1
        BY <2>1, FS_AddElement
    <2> QED
        BY <1>1, <2>1, <2>2
<1> QED
    BY <1>2, <1>3, <1>4

(* Every action keeps, gives or takes a slot: a stream holds its slot into *)
(* curl, a plain call gives it back before.                                *)
LEMMA NextSlots == Typed /\ Counted /\ [Next]_vars => Counted'
<1> SUFFICES ASSUME Typed, [Next]_vars PROVE Keeps \/ Gives \/ Takes
    BY SlotStep DEF Typed
<1> USE DEF Typed, TypeOK, Holders, Holds, Goto, call, got
<1>0. ASSUME NEW c \in Caller, NEW m \in {"plain", "stream"}, NEW p \in Owner, Call(c, m, p)
      PROVE Keeps
    BY <1>0 DEF Call, Keeps
<1>1. ASSUME NEW c \in Caller, Hit(c) PROVE Keeps
    BY <1>1 DEF Hit, Keeps
<1>2. ASSUME NEW c \in Caller, Miss(c) PROVE Keeps
    BY <1>2 DEF Miss, Keeps
<1>3. ASSUME NEW c \in Caller, AcquireTimesOut(c) PROVE Keeps
    BY <1>3 DEF AcquireTimesOut, Keeps
<1>4. ASSUME NEW c \in Caller, BackOff(c) PROVE Keeps
    BY <1>4 DEF BackOff, Keeps, Posting
<1>5. ASSUME NEW c \in Caller, Curl(c) PROVE Keeps
    BY <1>5 DEF Curl, Keeps, Gets
<1>6. ASSUME NEW c \in Caller, Piece(c) PROVE Keeps
    BY <1>6 DEF Piece, Keeps, Posting, Gets
<1>7. ASSUME NEW c \in Caller, StreamBreaks(c) PROVE Keeps
    BY <1>7 DEF StreamBreaks, Keeps, Posting
<1>8. ASSUME NEW c \in Caller, Store(c) PROVE Keeps
    BY <1>8 DEF Store, Keeps
<1>9. ASSUME NEW c \in Caller, Return(c) PROVE Keeps
    BY <1>9 DEF Return, Keeps
<1>10. ASSUME NEW c \in Caller, Answered(c) PROVE Gives
    <2>1. c \in Holders /\ Holders' = Holders \ {c} /\ free' = free + 1
        BY <1>10 DEF Answered, Release, Posting, Gets
    <2> QED
        BY <2>1 DEF Gives
<1>11. ASSUME NEW c \in Caller, Unusable(c) PROVE Gives
    <2>1. c \in Holders /\ Holders' = Holders \ {c} /\ free' = free + 1
        BY <1>11 DEF Unusable, Release, Posting
    <2> QED
        BY <2>1 DEF Gives
<1>12. ASSUME NEW c \in Caller, TryAgain(c) PROVE Gives
    <2>1. c \in Holders /\ Holders' = Holders \ {c} /\ free' = free + 1
        BY <1>12 DEF TryAgain, Release
    <2> QED
        BY <2>1 DEF Gives
<1>13. ASSUME NEW c \in Caller, FallBack(c) PROVE Gives
    <2>1. c \in Holders /\ Holders' = Holders \ {c} /\ free' = free + 1
        BY <1>13 DEF FallBack, Release, Posting
    <2> QED
        BY <2>1 DEF Gives
<1>14. ASSUME NEW c \in Caller, StreamEnds(c) PROVE Gives
    <2>1. c \in Holders /\ Holders' = Holders \ {c} /\ free' = free + 1
        BY <1>14 DEF StreamEnds, Release, Posting, Gets
    <2> QED
        BY <2>1 DEF Gives
<1>15. ASSUME NEW c \in Caller, CurlStream(c) PROVE Gives
    <2>1. c \in Holders /\ Holders' = Holders \ {c} /\ free' = free + 1
        BY <1>15 DEF CurlStream, Release, Gets
    <2> QED
        BY <2>1 DEF Gives
<1>16. ASSUME NEW c \in Caller, CurlStreamFails(c) PROVE Gives
    <2>1. c \in Holders /\ Holders' = Holders \ {c} /\ free' = free + 1
        BY <1>16 DEF CurlStreamFails, Release
    <2> QED
        BY <2>1 DEF Gives
<1>17. ASSUME NEW c \in Caller, Abandon(c) PROVE Gives
    <2>1. c \in Holders /\ Holders' = Holders \ {c} /\ free' = free + 1
        BY <1>17 DEF Abandon, Release, AtPiece
    <2> QED
        BY <2>1 DEF Gives
<1>18. ASSUME NEW c \in Caller, Acquire(c) PROVE Takes
    <2>1. c \in Caller \ Holders /\ Holders' = Holders \cup {c} /\ free' = free - 1
        BY <1>18 DEF Acquire
    <2> QED
        BY <2>1 DEF Takes
<1>19. ASSUME NEW k \in Owner, Expire(k) PROVE Keeps
    BY <1>19 DEF Expire, Keeps
<1>20. CASE UNCHANGED vars
    BY <1>20 DEF vars, Keeps
<1>21. QED
    BY <1>0, <1>1, <1>2, <1>3, <1>4, <1>5, <1>6, <1>7, <1>8, <1>9,
       <1>10, <1>11, <1>12, <1>13, <1>14, <1>15, <1>16, <1>17, <1>18, <1>19,
       <1>20 DEF Next, Step

(* At first the gate is full and nobody holds a slot. *)
LEMMA InitSlots == Init => Counted
<1> SUFFICES ASSUME Init PROVE Counted
    OBVIOUS
<1>1. Holders = {} /\ free = Slots
    BY DEF Init, Holders, Holds
<1> QED
    BY <1>1, FS_EmptySet, GateAssumption DEF Counted, GateAssumption

(* The inductive invariant: types, counted retries and owned answers. *)
LEMMA InductiveInvariant == Spec => [](Typed /\ Owned)
<1>1. Typed /\ Owned /\ [Next]_vars => (Typed /\ Owned)'
    BY NextTyped, NextOwned
<1> QED
    BY InitInv, <1>1, PTL DEF Spec

(* The client is type-correct, and no call retries more often than         *)
(* _MAX_RETRIES, for any number of callers.                                *)
THEOREM TypeCorrect == Spec => []TypeOK
<1>1. Typed /\ Owned => TypeOK
    BY DEF Typed
<1> QED
    BY <1>1, InductiveInvariant, PTL

(* However calls, failures and expiries interleave on the shared cache, a  *)
(* streamed answer for a user's own provider was given by that provider.   *)
THEOREM StreamedAnswersAlwaysOwn == Spec => []StreamedAnswersOwn
<1>1. Typed /\ Owned => StreamedAnswersOwn
    BY DEF Owned, OwnAnswers, StreamedAnswersOwn
<1> QED
    BY <1>1, InductiveInvariant, PTL

(* No path of any number of calls through retries, fall-backs, failures    *)
(* and closed streams loses a slot of the gate or gives one back twice.    *)
THEOREM SlotsAlwaysConserved == Spec => []SlotsConserved
<1>1. Typed /\ Owned /\ Counted /\ [Next]_vars => Counted'
    BY NextSlots
<1>2. Counted => SlotsConserved
    BY DEF Counted, SlotsConserved, Holders
<1> QED
    BY InitSlots, <1>1, <1>2, InductiveInvariant, PTL DEF Spec
=============================================================================
