----------------------- MODULE AddressResolver_proofs -----------------------
(***************************************************************************)
(* Type correctness of AddressResolver, that an address is resolved to a   *)
(* JID that WhatsApp confirmed for it, and that the spellings of a number  *)
(* have one mapping, for any numbers, callers and lives of a mapping.      *)
(***************************************************************************)
EXTENDS AddressResolver, TLAPS

-----------------------------------------------------------------------------
(* The spellings of a number are one class.                                *)

\* A number is its own candidate, and a spelling's candidates are the number's.
LEMMA CandidatesAreOneClass ==
    ASSUME NEW n \in Numbers
    PROVE  /\ n \in Candidates(n)
           /\ Candidates(n) \subseteq Numbers
           /\ \A m \in Candidates(n) : Candidates(m) = Candidates(n)
<1> DEFINE Twice(k) == k.area /\ k.mobile
           Other(k) == [k EXCEPT !.ninth = ~ @]
<1>1. ASSUME NEW k \in Spellings
      PROVE  BuildCandidates(k) = IF Twice(k) THEN <<k, Other(k)>> ELSE <<k>>
  BY DEF BuildCandidates, LegacyBrazilianNumberWithoutNinthDigit, BrazilianMobileWithNinthDigit,
         Spellings
<1>2. ASSUME NEW k \in Spellings
      PROVE  Candidates(k) = IF Twice(k) THEN {k, Other(k)} ELSE {k}
  <2> HIDE DEF Other, Twice
  <2>1. CASE Twice(k)
    <3>1. BuildCandidates(k) = <<k, Other(k)>>
      BY <1>1, <2>1
    <3>2. DOMAIN BuildCandidates(k) = {1, 2}
      BY <3>1
    <3> QED
      BY <2>1, <3>1, <3>2 DEF Candidates
  <2>2. CASE ~ Twice(k)
    <3>1. BuildCandidates(k) = <<k>>
      BY <1>1, <2>2
    <3>2. DOMAIN BuildCandidates(k) = {1}
      BY <3>1
    <3> QED
      BY <2>2, <3>1, <3>2 DEF Candidates
  <2> QED
    BY <2>1, <2>2
<1>3. ASSUME NEW k \in Spellings
      PROVE  /\ Other(k) \in Spellings /\ Other(Other(k)) = k
             /\ Twice(Other(k)) = Twice(k)
  BY DEF Spellings
<1>4. n \in Spellings /\ Candidates(n) \subseteq Numbers
  BY NumberAssumption, SpellingAssumption
<1> HIDE DEF Other, Twice
<1>5. ASSUME NEW m \in Candidates(n)
      PROVE  Candidates(m) = Candidates(n)
  <2>1. CASE ~ Twice(n)
    BY <1>2, <1>4, <2>1
  <2>2. CASE Twice(n) /\ m = Other(n)
    <3>1. Candidates(m) = {m, Other(m)} /\ Other(m) = n
      BY <1>2, <1>3, <1>4, <2>2
    <3> QED
      BY <1>2, <1>4, <2>2, <3>1
  <2> QED
    BY <1>2, <1>4, <2>1, <2>2
<1> QED
  BY <1>2, <1>4, <1>5

-----------------------------------------------------------------------------
(* The inductive invariant.                                                *)

\* A row names a spelling of its number, and lives no longer than the answer
\* it was made of.
RowsWereConfirmed ==
    \A n \in Numbers :
        row[n].jid # Nobody =>
            row[n].jid \in Candidates(n) /\ row[n].until <= confirmed[row[n].jid]

\* What a flight is about to store was answered at the instant it carries.
StoresWereConfirmed ==
    \A c \in Callers :
        At(c, "store") =>
            /\ call[c].jid \in Candidates(call[c].number)
            /\ call[c].at + TTL <= confirmed[call[c].jid]

\* A flight looks up one of its number's candidates.
CandidateInHand ==
    \A c \in Callers : call[c].next \in DOMAIN BuildCandidates(call[c].number)

\* No answer is of the future.
AnswersArePast == \A n \in Numbers : confirmed[n] <= clock + TTL

IInv ==
    /\ TypeOK
    /\ RowsWereConfirmed /\ StoresWereConfirmed /\ CandidateInHand /\ AnswersArePast
    /\ AnswersWereConfirmed /\ SpellingsAgree

\* A number has one or two spellings to ask about, all of them its candidates.
LEMMA DomainOfCandidates ==
    ASSUME NEW n \in Numbers
    PROVE  /\ 1 \in DOMAIN BuildCandidates(n)
           /\ \A i \in DOMAIN BuildCandidates(n) : i \in 1..2 /\ BuildCandidates(n)[i] \in Candidates(n)
           /\ Len(BuildCandidates(n)) \in 1..2
           /\ DOMAIN BuildCandidates(n) = 1..Len(BuildCandidates(n))
<1>1. \/ BuildCandidates(n) = <<n>>
      \/ BuildCandidates(n) = <<n, [n EXCEPT !.ninth = ~ @]>>
  BY DEF BuildCandidates
<1>2. \A i \in DOMAIN BuildCandidates(n) : BuildCandidates(n)[i] \in Candidates(n)
  BY DEF Candidates
<1> QED
  BY <1>1, <1>2

\* A record stays a record, field by field.
LEMMA RecordChanges ==
    ASSUME NEW r \in CallRecords
    PROVE  /\ \A step \in {"idle", "joined", "find", "delete", "ask", "store", "found", "failed"} :
                  [r EXCEPT !.step = step] \in CallRecords
           /\ \A jid \in Numbers \union {Nobody} : [r EXCEPT !.jid = jid] \in CallRecords
           /\ \A next \in 1..3 : [r EXCEPT !.next = next] \in CallRecords
           /\ \A at \in 0..MaxTime : [r EXCEPT !.at = at] \in CallRecords
<1>1. ASSUME NEW step \in {"idle", "joined", "find", "delete", "ask", "store", "found", "failed"}
      PROVE  [r EXCEPT !.step = step] \in CallRecords
  BY DEF CallRecords
<1>2. ASSUME NEW jid \in Numbers \union {Nobody}
      PROVE  [r EXCEPT !.jid = jid] \in CallRecords
  BY DEF CallRecords
<1>3. ASSUME NEW next \in 1..3
      PROVE  [r EXCEPT !.next = next] \in CallRecords
  BY DEF CallRecords
<1>4. ASSUME NEW at \in 0..MaxTime
      PROVE  [r EXCEPT !.at = at] \in CallRecords
  BY DEF CallRecords
<1> QED
  BY <1>1, <1>2, <1>3, <1>4

\* Nothing is stored, confirmed or found yet.
LEMMA InitInvariant == Init => IInv
<1> SUFFICES ASSUME Init PROVE IInv
  OBVIOUS
<1> DEFINE first == CHOOSE n \in Numbers : TRUE
<1>1. first \in Numbers
  BY NumberAssumption
<1>2. TypeOK
  <2>1. 0 \in 0..MaxTime /\ 0 \in 0..(MaxTime + TTL)
    BY TimeAssumption
  <2>2. NoRow \in Rows
    BY <2>1 DEF NoRow, Rows
  <2>3. [step |-> "idle", number |-> first, at |-> 0, next |-> 1, jid |-> Nobody] \in CallRecords
    BY <1>1, <2>1 DEF CallRecords
  <2> QED
    BY <2>1, <2>2, <2>3 DEF Init, TypeOK
<1>3. CandidateInHand
  BY <1>1, DomainOfCandidates DEF Init, CandidateInHand
<1>4. SpellingsAgree
  BY CandidatesAreOneClass DEF Init, SpellingsAgree
<1>5. RowsWereConfirmed /\ AnswersArePast
  BY TimeAssumption DEF Init, NoRow, RowsWereConfirmed, AnswersArePast
<1>6. StoresWereConfirmed /\ AnswersWereConfirmed
  BY DEF Init, StoresWereConfirmed, AnswersWereConfirmed, At
<1> QED
  BY <1>2, <1>3, <1>4, <1>5, <1>6 DEF IInv
-----------------------------------------------------------------------------
(* The steps.                                                              *)

\* A call of the resolver begins.
LEMMA ResolveKeeps ==
    ASSUME IInv, NEW c \in Callers, NEW n \in Numbers, Resolve(c, n)
    PROVE  IInv'
<1> USE DEF IInv, Resolve, At
<1>1. TypeOK'
  BY DEF TypeOK, CallRecords
<1>2. CandidateInHand'
  BY DomainOfCandidates DEF CandidateInHand, TypeOK
<1>3. StoresWereConfirmed' /\ AnswersWereConfirmed'
  BY DEF StoresWereConfirmed, AnswersWereConfirmed, TypeOK
<1>4. RowsWereConfirmed' /\ AnswersArePast' /\ SpellingsAgree'
  BY DEF RowsWereConfirmed, AnswersArePast, SpellingsAgree
<1> QED
  BY <1>1, <1>2, <1>3, <1>4

\* A flight that goes on has the next candidate in hand, or asks.
LEMMA NextCandidateKeeps ==
    ASSUME IInv, NEW c \in Callers, call' = [call EXCEPT ![c] = NextCandidate(c)], clock' = clock,
           confirmed' = confirmed
    PROVE  call' \in [Callers -> CallRecords] /\ CandidateInHand'
           /\ StoresWereConfirmed' /\ AnswersWereConfirmed'
<1> USE DEF IInv
<1> DEFINE mine == call[c]
           candidates == BuildCandidates(mine.number)
<1>1. mine \in CallRecords /\ mine.number \in Numbers /\ mine.next \in DOMAIN candidates
  BY DEF TypeOK, CallRecords, CandidateInHand
<1>2. mine.next \in 1..2 /\ Len(candidates) \in 1..2 /\ DOMAIN candidates = 1..Len(candidates)
  BY <1>1, DomainOfCandidates
<1>3. /\ call'[c] \in CallRecords /\ call'[c].step \in {"find", "ask"}
      /\ call'[c].number = mine.number /\ call'[c].next \in DOMAIN candidates
  <2> HIDE DEF candidates
  <2>1. CASE mine.next < Len(candidates)
    <3>1. call'[c] = [mine EXCEPT !.step = "find", !.next = mine.next + 1]
      BY <1>1, <2>1 DEF NextCandidate, TypeOK, CallRecords, candidates
    <3>2. mine.next + 1 \in 1..Len(candidates) /\ mine.next + 1 \in 1..3
      BY <1>2, <2>1
    <3>3. mine.next + 1 \in DOMAIN candidates
      BY <1>2, <3>2
    <3>4. /\ call'[c].step = "find" /\ call'[c].number = mine.number
          /\ call'[c].next = mine.next + 1
      <4> DEFINE next == mine.next + 1
      <4>1. mine \in CallRecords /\ call'[c] = [mine EXCEPT !.step = "find", !.next = next]
        BY <1>1, <3>1
      <4> HIDE DEF mine, next
      <4>2. call'[c].step = "find" /\ call'[c].number = mine.number
        BY <4>1 DEF CallRecords
      <4>3. call'[c].next = next
        BY <4>1 DEF CallRecords
      <4> QED
        BY <4>2, <4>3 DEF next
    <3>5. call'[c] \in CallRecords
      <4>1. [mine EXCEPT !.step = "find"] \in CallRecords
        BY <1>1, RecordChanges
      <4>2. [[mine EXCEPT !.step = "find"] EXCEPT !.next = mine.next + 1] \in CallRecords
        BY <3>2, <4>1, RecordChanges
      <4> QED
        BY <3>1, <4>2
    <3> QED
      BY <3>3, <3>4, <3>5
  <2>2. CASE ~ (mine.next < Len(candidates))
    <3>1. call'[c] = [mine EXCEPT !.step = "ask"]
      BY <2>2 DEF NextCandidate, TypeOK, candidates
    <3> QED
      BY <1>1, <1>2, <3>1 DEF CallRecords
  <2> QED
    BY <2>1, <2>2
<1>4. \A d \in Callers : d # c => call'[d] = call[d]
  BY DEF TypeOK
<1>5. call' \in [Callers -> CallRecords]
  BY <1>3, <1>4 DEF TypeOK
<1>6. CandidateInHand'
  BY <1>3, <1>4 DEF CandidateInHand
<1>7. StoresWereConfirmed' /\ AnswersWereConfirmed'
  BY <1>3, <1>4 DEF StoresWereConfirmed, AnswersWereConfirmed, At
<1> QED
  BY <1>5, <1>6, <1>7

\* A flight that lands with a confirmed JID, or fails, tells no caller another.
LEMMA LandsKeeps ==
    ASSUME IInv, NEW c \in Callers, NEW step \in {"found", "failed"},
           NEW jid \in Numbers \union {Nobody}, Lands(c, step, jid),
           confirmed' = confirmed,
           step = "found" =>
               jid \in Candidates(call[c].number) /\ confirmed[jid] > call[c].at
    PROVE  call' \in [Callers -> CallRecords] /\ CandidateInHand'
           /\ StoresWereConfirmed' /\ AnswersWereConfirmed'
<1> USE DEF IInv
<1> DEFINE Landed(d) == d = c \/ (At(d, "joined") /\ call[d].number = call[c].number)
           result == [call[c] EXCEPT !.step = step, !.jid = jid, !.next = 1]
<1>1. call[c] \in CallRecords /\ call[c].number \in Numbers
  BY DEF TypeOK, CallRecords
<1>2. /\ result \in CallRecords /\ result.step = step /\ result.jid = jid /\ result.next = 1
      /\ result.number = call[c].number /\ result.at = call[c].at
  <2> DEFINE stepped == [call[c] EXCEPT !.step = step]
             told == [stepped EXCEPT !.jid = jid]
  <2>1. stepped \in CallRecords
    BY <1>1, RecordChanges
  <2>2. told \in CallRecords
    BY <2>1, RecordChanges
  <2>3. [told EXCEPT !.next = 1] \in CallRecords
    <3> HIDE DEF told
    <3>1. \A next \in 1..3 : [told EXCEPT !.next = next] \in CallRecords
      BY <2>2, RecordChanges
    <3>2. 1 \in 1..3
      OBVIOUS
    <3> QED
      BY <3>1, <3>2, Zenon
  <2>4. result = [told EXCEPT !.next = 1]
    OBVIOUS
  <2>5. result \in CallRecords
    BY <2>3, <2>4
  <2>6. /\ result.step = step /\ result.jid = jid /\ result.next = 1
        /\ result.number = call[c].number /\ result.at = call[c].at
    BY <1>1 DEF CallRecords
  <2> QED
    BY <2>5, <2>6
<1>3. call' = [d \in Callers |-> IF Landed(d) THEN result ELSE call[d]]
  BY DEF Lands
<1> HIDE DEF Landed, result
<1>4. call' \in [Callers -> CallRecords]
  BY <1>2, <1>3 DEF TypeOK
<1>5. CandidateInHand'
  BY <1>1, <1>2, <1>3, DomainOfCandidates DEF CandidateInHand
<1>6. StoresWereConfirmed' /\ AnswersWereConfirmed'
  BY <1>2, <1>3 DEF StoresWereConfirmed, AnswersWereConfirmed, At
<1> QED
  BY <1>4, <1>5, <1>6

\* Deleting the rows of a JID leaves the others as they were.
LEMMA WithoutMappingKeeps ==
    ASSUME IInv, NEW c \in Callers, confirmed' = confirmed,
           row' = WithoutMapping(c) \/ row' = row
    PROVE  row' \in [Numbers -> Rows] /\ RowsWereConfirmed' /\ SpellingsAgree'
<1> USE DEF IInv
<1>1. NoRow \in Rows /\ NoRow.jid = Nobody
  BY TimeAssumption DEF NoRow, Rows
<1>2. CASE row' = row
  BY <1>2 DEF TypeOK, RowsWereConfirmed, SpellingsAgree
<1>3. CASE row' = WithoutMapping(c)
  <2>1. row' = [n \in Numbers |-> IF row[n].jid = call[c].jid THEN NoRow ELSE row[n]]
    BY <1>3 DEF WithoutMapping
  <2>2. row' \in [Numbers -> Rows]
    BY <1>1, <2>1 DEF TypeOK
  <2>3. RowsWereConfirmed'
    BY <1>1, <2>1 DEF RowsWereConfirmed
  <2>4. SpellingsAgree'
    BY <2>1, CandidatesAreOneClass DEF SpellingsAgree
  <2> QED
    BY <2>2, <2>3, <2>4
<1> QED
  BY <1>2, <1>3

\* Misses, deletions and a tick of the clock.
LEMMA LookupsKeep ==
    ASSUME IInv, NEW c \in Callers, FindMisses(c) \/ FindExpired(c) \/ DeleteByCanonicalJID(c)
    PROVE  IInv'
<1> USE DEF IInv
<1>1. CASE FindMisses(c)
  <2>1. TypeOK' /\ CandidateInHand' /\ StoresWereConfirmed' /\ AnswersWereConfirmed'
    BY <1>1, NextCandidateKeeps DEF FindMisses, TypeOK
  <2>2. RowsWereConfirmed' /\ AnswersArePast' /\ SpellingsAgree'
    BY <1>1 DEF FindMisses, RowsWereConfirmed, AnswersArePast, SpellingsAgree
  <2> QED
    BY <2>1, <2>2
<1>2. CASE FindExpired(c)
  <2> DEFINE deleting == [call[c] EXCEPT !.step = "delete"]
             jid == Current(c).jid
  <2>1. call[c] \in CallRecords /\ call[c].number \in Numbers
    BY DEF TypeOK, CallRecords
  <2>2. Current(c) \in Rows
    BY <2>1, DomainOfCandidates, SpellingAssumption DEF CandidateInHand, Current, TypeOK
  <2>3. jid \in Numbers \union {Nobody}
    BY <2>2 DEF Rows
  <2>4. deleting \in CallRecords
    BY <2>1, RecordChanges
  <2>5. [deleting EXCEPT !.jid = jid] \in CallRecords
    <3> HIDE DEF deleting, jid
    <3> QED
      BY <2>3, <2>4, RecordChanges
  <2>6. call' = [call EXCEPT ![c] = [deleting EXCEPT !.jid = jid]]
    BY <1>2, <2>1 DEF FindExpired, TypeOK
  <2>7. call' \in [Callers -> CallRecords]
    BY <2>5, <2>6 DEF TypeOK
  <2>8. /\ call'[c].step = "delete" /\ call'[c].next = call[c].next
        /\ call'[c].number = call[c].number /\ \A d \in Callers : d # c => call'[d] = call[d]
    BY <1>2, <2>1 DEF FindExpired, TypeOK, CallRecords
  <2>9. TypeOK' /\ RowsWereConfirmed' /\ AnswersArePast' /\ SpellingsAgree'
    BY <1>2, <2>7 DEF FindExpired, TypeOK, RowsWereConfirmed, AnswersArePast, SpellingsAgree
  <2>10. CandidateInHand'
    BY <2>8 DEF CandidateInHand
  <2>11. StoresWereConfirmed' /\ AnswersWereConfirmed'
    BY <1>2, <2>8 DEF FindExpired, StoresWereConfirmed, AnswersWereConfirmed, At
  <2> QED
    BY <2>9, <2>10, <2>11
<1>3. CASE DeleteByCanonicalJID(c)
  <2>1. call' \in [Callers -> CallRecords] /\ CandidateInHand'
        /\ StoresWereConfirmed' /\ AnswersWereConfirmed'
    BY <1>3, NextCandidateKeeps DEF DeleteByCanonicalJID
  <2>2. row' \in [Numbers -> Rows] /\ RowsWereConfirmed' /\ SpellingsAgree'
    BY <1>3, WithoutMappingKeeps DEF DeleteByCanonicalJID
  <2>3. TypeOK' /\ AnswersArePast'
    BY <1>3, <2>1, <2>2 DEF DeleteByCanonicalJID, TypeOK, AnswersArePast
  <2> QED
    BY <2>1, <2>2, <2>3
<1> QED
  BY <1>1, <1>2, <1>3

\* A mapping found alive is younger than the answer it was made of.
LEMMA FindHitsKeeps ==
    ASSUME IInv, NEW c \in Callers, FindHits(c)
    PROVE  IInv'
<1> USE DEF IInv
<1> DEFINE number == call[c].number
           candidate == BuildCandidates(number)[call[c].next]
           jid == Current(c).jid
<1>1. number \in Numbers /\ call[c].at \in Nat
  BY DEF TypeOK, CallRecords
<1>2. candidate \in Candidates(number) /\ candidate \in Numbers
  BY <1>1, DomainOfCandidates, SpellingAssumption DEF CandidateInHand
<1>3. Current(c) = row[candidate] /\ row[candidate] \in Rows
  BY <1>2 DEF Current, TypeOK
<1>4. jid # Nobody /\ Current(c).until > call[c].at
  BY DEF FindHits, Alive
<1>5. jid \in Candidates(candidate) /\ Current(c).until <= confirmed[jid]
  <2> HIDE DEF candidate
  <2> QED
    BY <1>2, <1>3, <1>4 DEF RowsWereConfirmed
<1>6. jid \in Candidates(number) /\ jid \in Numbers
  <2> HIDE DEF number, candidate, jid
  <2> QED
    BY <1>1, <1>2, <1>5, CandidatesAreOneClass
<1>7. confirmed[jid] > call[c].at
  <2>1. confirmed[jid] \in Nat /\ Current(c).until \in Nat
    BY <1>3, <1>6, TimeAssumption DEF TypeOK, Rows
  <2> HIDE DEF jid
  <2> QED
    BY <1>1, <1>4, <1>5, <2>1
<1>8. call' \in [Callers -> CallRecords] /\ CandidateInHand'
      /\ StoresWereConfirmed' /\ AnswersWereConfirmed'
  <2>1. Lands(c, "found", jid) /\ confirmed' = confirmed
    BY DEF FindHits
  <2> HIDE DEF jid
  <2> QED
    BY <1>6, <1>7, <2>1, LandsKeeps
<1>9. TypeOK' /\ RowsWereConfirmed' /\ AnswersArePast' /\ SpellingsAgree'
  BY <1>8 DEF FindHits, TypeOK, RowsWereConfirmed, AnswersArePast, SpellingsAgree
<1> QED
  BY <1>8, <1>9

\* An answer is the latest of its JID.
LEMMA IsOnWhatsAppKeeps ==
    ASSUME IInv, NEW c \in Callers, IsOnWhatsApp(c)
    PROVE  IInv'
<1> USE DEF IInv
<1>1. call[c] \in CallRecords /\ call[c].number \in Numbers
  BY DEF TypeOK, CallRecords
<1>2. CASE Lands(c, "failed", Nobody) /\ UNCHANGED confirmed
  <2>1. call' \in [Callers -> CallRecords] /\ CandidateInHand'
        /\ StoresWereConfirmed' /\ AnswersWereConfirmed'
    BY <1>2, LandsKeeps
  <2>2. TypeOK' /\ RowsWereConfirmed' /\ AnswersArePast' /\ SpellingsAgree'
    BY <1>2, <2>1 DEF IsOnWhatsApp, TypeOK, RowsWereConfirmed, AnswersArePast, SpellingsAgree
  <2> QED
    BY <2>1, <2>2
<1>3. ASSUME NEW jid \in Candidates(call[c].number),
             call' = [call EXCEPT ![c].step = "store", ![c].at = clock, ![c].jid = jid],
             confirmed' = [confirmed EXCEPT ![jid] = clock + TTL]
      PROVE  IInv'
  <2>1. jid \in Numbers /\ clock \in 0..MaxTime /\ clock + TTL \in 0..(MaxTime + TTL)
    BY <1>1, SpellingAssumption, TimeAssumption DEF TypeOK
  <2> DEFINE storing == [call[c] EXCEPT !.step = "store"]
             timed == [storing EXCEPT !.at = clock]
  <2>2. storing \in CallRecords
    BY <1>1, RecordChanges
  <2>3. timed \in CallRecords
    <3> HIDE DEF storing
    <3> QED
      BY <2>1, <2>2, RecordChanges
  <2>4. [timed EXCEPT !.jid = jid] \in CallRecords
    <3> HIDE DEF timed
    <3> QED
      BY <2>1, <2>3, RecordChanges
  <2>5. call' = [call EXCEPT ![c] = [timed EXCEPT !.jid = jid]]
    BY <1>1, <1>3 DEF TypeOK
  <2>6. call' \in [Callers -> CallRecords]
    BY <2>4, <2>5 DEF TypeOK
  <2>7. /\ call'[c].step = "store" /\ call'[c].next = call[c].next
        /\ call'[c].number = call[c].number /\ call'[c].at = clock /\ call'[c].jid = jid
        /\ \A d \in Callers : d # c => call'[d] = call[d]
    BY <1>1, <1>3 DEF TypeOK, CallRecords
  <2>8. /\ confirmed' \in [Numbers -> 0..(MaxTime + TTL)]
        /\ confirmed'[jid] = clock + TTL
        /\ \A n \in Numbers : confirmed'[n] <= clock + TTL /\ confirmed[n] <= confirmed'[n]
    <3>1. \A n \in Numbers : confirmed'[n] = IF n = jid THEN clock + TTL ELSE confirmed[n]
      BY <1>3, <2>1 DEF TypeOK
    <3>2. \A n \in Numbers : confirmed[n] \in 0..(MaxTime + TTL) /\ confirmed[n] <= clock + TTL
      BY DEF TypeOK, AnswersArePast
    <3>3. MaxTime + TTL \in Nat /\ clock + TTL \in Nat
      BY <2>1, TimeAssumption
    <3>4. confirmed' \in [Numbers -> 0..(MaxTime + TTL)]
      BY <1>3, <2>1 DEF TypeOK
    <3>5. \A n \in Numbers : confirmed'[n] <= clock + TTL /\ confirmed[n] <= confirmed'[n]
      BY <3>1, <3>2, <3>3
    <3> QED
      BY <2>1, <3>1, <3>4, <3>5
  <2>9. TypeOK' /\ AnswersArePast' /\ SpellingsAgree'
    BY <2>6, <2>8 DEF IsOnWhatsApp, TypeOK, AnswersArePast, SpellingsAgree
  <2>10. CandidateInHand'
    BY <2>7 DEF CandidateInHand
  <2>11. row' = row /\ \A n \in Numbers : row[n] \in Rows /\ row[n].until \in Nat
    BY TimeAssumption DEF IsOnWhatsApp, TypeOK, Rows
  <2>12. \A n \in Numbers : confirmed[n] \in Nat /\ confirmed'[n] \in Nat
    BY <2>8, TimeAssumption DEF TypeOK
  <2>13. RowsWereConfirmed'
    <3> SUFFICES ASSUME NEW n \in Numbers, row[n].jid # Nobody
                 PROVE  row[n].jid \in Candidates(n) /\ row[n].until <= confirmed'[row[n].jid]
      BY <2>11 DEF RowsWereConfirmed
    <3>1. row[n].jid \in Candidates(n) /\ row[n].until <= confirmed[row[n].jid]
      BY DEF RowsWereConfirmed
    <3>2. row[n].jid \in Numbers
      BY <3>1, SpellingAssumption
    <3> QED
      BY <2>8, <2>11, <2>12, <3>1, <3>2
  <2>14. \A d \in Callers : call[d].number \in Numbers /\ call[d].at \in Nat
    BY DEF TypeOK, CallRecords
  <2>15. StoresWereConfirmed'
    <3> SUFFICES ASSUME NEW d \in Callers, call'[d].step = "store"
                 PROVE  /\ call'[d].jid \in Candidates(call'[d].number)
                        /\ call'[d].at + TTL <= confirmed'[call'[d].jid]
      BY DEF StoresWereConfirmed, At
    <3>1. CASE d = c
      BY <2>1, <2>7, <2>8, <3>1, TimeAssumption
    <3>2. CASE d # c
      <4>1. /\ call[d].jid \in Candidates(call[d].number)
            /\ call[d].at + TTL <= confirmed[call[d].jid]
        BY <2>7, <3>2 DEF StoresWereConfirmed, At
      <4>2. call[d].jid \in Numbers
        BY <2>14, <4>1, SpellingAssumption
      <4> QED
        BY <2>7, <2>8, <2>12, <2>14, <3>2, <4>1, <4>2, TimeAssumption
    <3> QED
      BY <3>1, <3>2
  <2>16. AnswersWereConfirmed'
    <3> SUFFICES ASSUME NEW d \in Callers, call'[d].step = "found"
                 PROVE  /\ call'[d].jid \in Candidates(call'[d].number)
                        /\ confirmed'[call'[d].jid] > call'[d].at
      BY DEF AnswersWereConfirmed, At
    <3>1. call'[d] = call[d]
      BY <2>7
    <3>2. call[d].jid \in Candidates(call[d].number) /\ confirmed[call[d].jid] > call[d].at
      BY <3>1 DEF AnswersWereConfirmed, At
    <3>3. call[d].jid \in Numbers
      BY <2>14, <3>2, SpellingAssumption
    <3> QED
      BY <2>8, <2>12, <2>14, <3>1, <3>2, <3>3
  <2> QED
    BY <2>9, <2>10, <2>13, <2>15, <2>16
<1> QED
  BY <1>2, <1>3 DEF IsOnWhatsApp

\* The new mapping is written for all spellings or for none.
LEMMA UpsertKeeps ==
    ASSUME IInv, NEW c \in Callers, Upsert(c)
    PROVE  IInv'
<1> USE DEF IInv
<1> DEFINE number == call[c].number
           jid == call[c].jid
           mapping == [jid |-> jid, until |-> call[c].at + TTL]
<1>1. number \in Numbers /\ call[c].at \in 0..MaxTime
  BY DEF TypeOK, CallRecords
<1>2. jid \in Candidates(number) /\ call[c].at + TTL <= confirmed[jid]
  BY DEF Upsert, StoresWereConfirmed
<1>3. jid \in Numbers
  BY <1>1, <1>2, SpellingAssumption
<1>4. confirmed[jid] > call[c].at
  <2>1. confirmed[jid] \in Nat
    BY <1>3, TimeAssumption DEF TypeOK
  <2> HIDE DEF jid
  <2> QED
    BY <1>1, <1>2, <2>1, TimeAssumption
<1>5. call' \in [Callers -> CallRecords] /\ CandidateInHand'
      /\ StoresWereConfirmed' /\ AnswersWereConfirmed'
  <2>1. Lands(c, "found", jid) /\ confirmed' = confirmed
    BY DEF Upsert
  <2> HIDE DEF jid
  <2> QED
    BY <1>2, <1>3, <1>4, <2>1, LandsKeeps
<1>6. row' \in [Numbers -> Rows] /\ RowsWereConfirmed' /\ SpellingsAgree'
  <2>1. CASE row' = row
    BY <2>1, WithoutMappingKeeps DEF Upsert
  <2>2. CASE row' = Upserted(c)
    <3>1. row' = [n \in Numbers |-> IF n \in Candidates(number) THEN mapping
                                    ELSE WithoutMapping(c)[n]]
      BY <2>2 DEF Upserted
    <3>2. mapping \in Rows
      <4>1. call[c].at + TTL \in 0..(MaxTime + TTL)
        BY <1>1, TimeAssumption
      <4> QED
        BY <1>3, <4>1 DEF Rows
    <3>3. \A n \in Numbers : WithoutMapping(c)[n] = IF row[n].jid = jid THEN NoRow ELSE row[n]
      BY DEF WithoutMapping
    <3>4. NoRow \in Rows /\ NoRow.jid = Nobody
      BY TimeAssumption DEF NoRow, Rows
    <3>5. row' \in [Numbers -> Rows]
      BY <3>1, <3>2, <3>3, <3>4 DEF TypeOK
    <3>6. mapping.jid = jid /\ mapping.until <= confirmed[jid]
      BY <1>2
    <3>7. confirmed' = confirmed
      BY DEF Upsert
    <3> HIDE DEF number, jid, mapping
    <3>8. \A n \in Candidates(number) : Candidates(n) = Candidates(number)
      BY <1>1, CandidatesAreOneClass
    <3>9. RowsWereConfirmed'
      <4> SUFFICES ASSUME NEW n \in Numbers, row'[n].jid # Nobody
                   PROVE  row'[n].jid \in Candidates(n) /\ row'[n].until <= confirmed[row'[n].jid]
        BY <3>7 DEF RowsWereConfirmed
      <4>1. CASE n \in Candidates(number)
        BY <1>2, <3>1, <3>6, <3>8, <4>1
      <4>2. CASE n \notin Candidates(number)
        BY <3>1, <3>3, <3>4, <4>2 DEF RowsWereConfirmed
      <4> QED
        BY <4>1, <4>2
    <3>10. SpellingsAgree'
      <4> SUFFICES ASSUME NEW n \in Numbers, NEW m \in Candidates(n)
                   PROVE  row'[n] = row'[m]
        BY DEF SpellingsAgree
      <4>1. m \in Numbers /\ n \in Candidates(m) /\ row[n] = row[m]
        BY CandidatesAreOneClass DEF SpellingsAgree
      <4>2. (n \in Candidates(number)) = (m \in Candidates(number))
        BY <3>8, <4>1
      <4> QED
        BY <3>1, <3>3, <4>1, <4>2
    <3> QED
      BY <3>5, <3>9, <3>10
  <2> QED
    BY <2>1, <2>2 DEF Upsert
<1>7. TypeOK' /\ AnswersArePast'
  BY <1>5, <1>6 DEF Upsert, TypeOK, AnswersArePast
<1> QED
  BY <1>5, <1>6, <1>7

\* Time only makes mappings expire.
LEMMA TickKeeps == ASSUME IInv, Tick PROVE IInv'
<1> USE DEF IInv, Tick
<1>1. TypeOK'
  BY TimeAssumption DEF TypeOK
<1>2. AnswersArePast'
  <2>1. \A n \in Numbers : confirmed[n] \in Nat /\ confirmed[n] <= clock + TTL
    BY TimeAssumption DEF TypeOK, AnswersArePast
  <2> QED
    BY <2>1, TimeAssumption DEF AnswersArePast, TypeOK
<1>3. RowsWereConfirmed' /\ StoresWereConfirmed' /\ CandidateInHand'
  BY DEF RowsWereConfirmed, StoresWereConfirmed, CandidateInHand, At
<1>4. AnswersWereConfirmed' /\ SpellingsAgree'
  BY DEF AnswersWereConfirmed, SpellingsAgree, At
<1> QED
  BY <1>1, <1>2, <1>3, <1>4

\* A step that changes nothing.
LEMMA StutterKeeps == ASSUME IInv, UNCHANGED vars PROVE IInv'
<1> USE DEF IInv, vars
<1>1. TypeOK' /\ RowsWereConfirmed' /\ AnswersArePast' /\ SpellingsAgree'
  BY DEF TypeOK, RowsWereConfirmed, AnswersArePast, SpellingsAgree
<1>2. StoresWereConfirmed' /\ CandidateInHand' /\ AnswersWereConfirmed'
  BY DEF StoresWereConfirmed, CandidateInHand, AnswersWereConfirmed, At
<1> QED
  BY <1>1, <1>2

-----------------------------------------------------------------------------
(* The theorems.                                                           *)

\* The inductive invariant holds in every state of every behaviour.
LEMMA Invariant == Spec => []IInv
<1>1. ASSUME IInv, [Next]_vars PROVE IInv'
  <2>1. ASSUME NEW c \in Callers, Step(c) PROVE IInv'
    BY <1>1, <2>1, ResolveKeeps, LookupsKeep, FindHitsKeeps, IsOnWhatsAppKeeps, UpsertKeeps
       DEF Step
  <2> QED
    BY <1>1, <2>1, TickKeeps, StutterKeeps DEF Next
<1> QED
  BY <1>1, InitInvariant, PTL DEF Spec

\* Rows, flights and answers are what the code can hold.
THEOREM TypeCorrect == Spec => []TypeOK
<1>1. IInv => TypeOK
  BY DEF IInv
<1> QED
  BY <1>1, Invariant, PTL

\* A message goes to a JID that WhatsApp confirmed for its number, recently
\* enough, whatever other flights deleted and stored (resolveNumber, findCached).
THEOREM AnswersConfirmed == Spec => []AnswersWereConfirmed
<1>1. IInv => AnswersWereConfirmed
  BY DEF IInv
<1> QED
  BY <1>1, Invariant, PTL

\* The spellings of a number never lead to different JIDs (BuildCandidates,
\* Upsert, DeleteByCanonicalJID).
THEOREM SpellingsAgreed == Spec => []SpellingsAgree
<1>1. IInv => SpellingsAgree
  BY DEF IInv
<1> QED
  BY <1>1, Invariant, PTL

=============================================================================
