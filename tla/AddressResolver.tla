-------------------------- MODULE AddressResolver --------------------------
(***************************************************************************)
(* How a phone number becomes the JID a message is sent to                 *)
(* (internal/whatsapp/address: normalize.go, resolver.go;                  *)
(* address_mapping_repository.go).  A Brazilian mobile number is written   *)
(* with or without a ninth digit, and WhatsApp knows it by one of the two. *)
(* A call looks its spellings up in the table of mappings, asks WhatsApp   *)
(* when it finds none that is alive, and stores the answer for all of them. *)
(*                                                                         *)
(* Calls for one spelling share a flight; calls for the other spelling do  *)
(* not, so two flights read, delete and write the same rows.  A step is a  *)
(* statement, a transaction or a network call.  The bare and the JID form  *)
(* of a spelling are one row, since every statement treats them alike.     *)
(* WhatsApp is external: it may answer any spelling it was asked for, and  *)
(* another one the next time.                                              *)
(***************************************************************************)
EXTENDS Naturals, Sequences

CONSTANTS
    Numbers,     \* numbers as they are dialled
    Callers,     \* goroutines that call Resolve
    TTL,         \* how long a mapping lives
    MaxTime,     \* bound: the last instant
    Nobody       \* no JID

\* What BuildCandidates looks at.  area: country code 55 and an area code from
\* 31 on; mobile: the subscriber number, without the ninth digit, starts with
\* 7 or more; ninth: 13 digits, of which the ninth digit is a 9; else 12.
Spellings == [area : BOOLEAN, mobile : BOOLEAN, ninth : BOOLEAN]

ASSUME NumberAssumption == Numbers \subseteq Spellings /\ Numbers # {}
ASSUME TimeAssumption == TTL \in Nat \ {0} /\ MaxTime \in Nat
ASSUME NullAssumption == Nobody \notin Numbers

VARIABLES
    clock,
    row,         \* row[n]: the mapping of spelling n
    call,        \* call[c]: what caller c does
    confirmed    \* confirmed[j]: until when WhatsApp's last answer j may be used

vars == <<clock, row, call, confirmed>>

Rows == [jid : Numbers \union {Nobody}, until : 0..(MaxTime + TTL)]

NoRow == [jid |-> Nobody, until |-> 0]

\* at: the instant the flight began, or WhatsApp answered.  next: the
\* candidate to look up.  jid: the mapping or the answer in hand.
CallRecords ==
    [step : {"idle", "joined", "find", "delete", "ask", "store", "found", "failed"},
     number : Numbers, at : 0..MaxTime, next : 1..3, jid : Numbers \union {Nobody}]

TypeOK ==
    /\ clock \in 0..MaxTime
    /\ row \in [Numbers -> Rows]
    /\ call \in [Callers -> CallRecords]
    /\ confirmed \in [Numbers -> 0..(MaxTime + TTL)]

-----------------------------------------------------------------------------
(* The spellings of a number.                                              *)

LegacyBrazilianNumberWithoutNinthDigit(n) == n.ninth /\ n.area /\ n.mobile

BrazilianMobileWithNinthDigit(n) == ~ n.ninth /\ n.area /\ n.mobile

\* The number as it was dialled comes first.
BuildCandidates(n) ==
    IF LegacyBrazilianNumberWithoutNinthDigit(n) \/ BrazilianMobileWithNinthDigit(n)
    THEN <<n, [n EXCEPT !.ninth = ~ @]>>
    ELSE <<n>>

Candidates(n) == {BuildCandidates(n)[i] : i \in DOMAIN BuildCandidates(n)}

ASSUME SpellingAssumption == \A n \in Numbers : Candidates(n) \subseteq Numbers

Init ==
    /\ clock = 0
    /\ row = [n \in Numbers |-> NoRow]
    /\ call = [c \in Callers |-> [step |-> "idle", number |-> CHOOSE n \in Numbers : TRUE,
                                  at |-> 0, next |-> 1, jid |-> Nobody]]
    /\ confirmed = [n \in Numbers |-> 0]

-----------------------------------------------------------------------------
(* One flight.                                                             *)

At(c, step) == call[c].step = step

Goto(c, step) == call' = [call EXCEPT ![c].step = step]

Flying(c) == call[c].step \in {"find", "delete", "ask", "store"}

\* group.Do: the first caller with this number leads.
Resolve(c, n) ==
    /\ call[c].step \in {"idle", "found", "failed"}
    /\ call' = [call EXCEPT ![c] =
         [step |-> IF \E d \in Callers : Flying(d) /\ call[d].number = n THEN "joined" ELSE "find",
          number |-> n, at |-> clock, next |-> 1, jid |-> Nobody]]
    /\ UNCHANGED <<clock, row, confirmed>>

\* The flight ends, and those who joined it end as it does, with an error too
\* when only the leader's context was over.
Lands(c, step, jid) ==
    call' = [d \in Callers |->
               IF d = c \/ (At(d, "joined") /\ call[d].number = call[c].number)
               THEN [call[c] EXCEPT !.step = step, !.jid = jid, !.next = 1]
               ELSE call[d]]

Current(c) == row[BuildCandidates(call[c].number)[call[c].next]]

AliveForever(mapping, now) == mapping.jid # Nobody

Alive(mapping, now) == mapping.jid # Nobody /\ mapping.until > now

\* Looking a candidate up failed, or its mapping is gone: the next candidate.
NextCandidate(c) ==
    IF call[c].next < Len(BuildCandidates(call[c].number))
    THEN [call[c] EXCEPT !.step = "find", !.next = @ + 1]
    ELSE [call[c] EXCEPT !.step = "ask"]

FindMisses(c) ==
    /\ At(c, "find")
    /\ call' = [call EXCEPT ![c] = NextCandidate(c)]
    /\ UNCHANGED <<clock, row, confirmed>>

FindHits(c) ==
    /\ At(c, "find") /\ Alive(Current(c), call[c].at)
    /\ Lands(c, "found", Current(c).jid)
    /\ UNCHANGED <<clock, row, confirmed>>

FindExpired(c) ==
    /\ At(c, "find") /\ Current(c).jid # Nobody /\ ~ Alive(Current(c), call[c].at)
    /\ call' = [call EXCEPT ![c].step = "delete", ![c].jid = Current(c).jid]
    /\ UNCHANGED <<clock, row, confirmed>>

WithoutCurrent(c) == [row EXCEPT ![BuildCandidates(call[c].number)[call[c].next]] = NoRow]

\* Every row of the JID, also one that another flight has written since.
WithoutMapping(c) ==
    [n \in Numbers |-> IF row[n].jid = call[c].jid THEN NoRow ELSE row[n]]

DeleteByCanonicalJID(c) ==
    /\ At(c, "delete")
    /\ row' = WithoutMapping(c) \/ row' = row
    /\ call' = [call EXCEPT ![c] = NextCandidate(c)]
    /\ UNCHANGED <<clock, confirmed>>

\* IsOnWhatsApp for all candidates at once: one of them, or none, several, an
\* error, or the leader's context is over.
IsOnWhatsApp(c) ==
    /\ At(c, "ask")
    /\ \/ \E jid \in Candidates(call[c].number) :
            /\ call' = [call EXCEPT ![c].step = "store", ![c].at = clock, ![c].jid = jid]
            /\ confirmed' = [confirmed EXCEPT ![jid] = clock + TTL]
       \/ Lands(c, "failed", Nobody) /\ UNCHANGED confirmed
    /\ UNCHANGED <<clock, row>>

\* One transaction: the JID's rows go, all spellings get the new mapping.
Upserted(c) ==
    [n \in Numbers |->
       IF n \in Candidates(call[c].number)
       THEN [jid |-> call[c].jid, until |-> call[c].at + TTL]
       ELSE WithoutMapping(c)[n]]

\* A mapping that cannot be stored is still the answer.
Upsert(c) ==
    /\ At(c, "store")
    /\ row' = Upserted(c) \/ row' = row
    /\ Lands(c, "found", call[c].jid)
    /\ UNCHANGED <<clock, confirmed>>

Step(c) ==
    \/ \E n \in Numbers : Resolve(c, n)
    \/ FindMisses(c) \/ FindHits(c) \/ FindExpired(c)
    \/ DeleteByCanonicalJID(c) \/ IsOnWhatsApp(c) \/ Upsert(c)

Tick ==
    /\ clock < MaxTime /\ clock' = clock + 1
    /\ UNCHANGED <<row, call, confirmed>>

Next ==
    \/ \E c \in Callers : Step(c)
    \/ Tick

Spec == Init /\ [][Next]_vars

-----------------------------------------------------------------------------

\* A message goes to a JID that WhatsApp confirmed for one of the number's
\* spellings, less than a mapping's life before the call began, whatever other
\* flights deleted and stored meanwhile (resolveNumber, findCached).
AnswersWereConfirmed ==
    \A c \in Callers :
        At(c, "found") =>
            /\ call[c].jid \in Candidates(call[c].number)
            /\ confirmed[call[c].jid] > call[c].at

\* The two spellings of a number are one mapping: a message to either goes to
\* the same JID until both expire together.  Flights for the two spellings run
\* at once, and an expired mapping is deleted by its JID while another flight
\* stores a new one (BuildCandidates, Upsert, DeleteByCanonicalJID).
SpellingsAgree ==
    \A n \in Numbers : \A m \in Candidates(n) : row[n] = row[m]

=============================================================================
