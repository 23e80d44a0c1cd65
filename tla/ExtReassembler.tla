--------------------------- MODULE ExtReassembler ---------------------------
(***************************************************************************)
(* ExtReassembler of argus-node/scanner/hci_le.py: extended advertising    *)
(* data that arrives split across reports is joined, by transmitter and    *)
(* set, if its parts arrive within max_age.  Reports keep their order, but *)
(* one may be lost, also as the rest of an event that is too short.        *)
(*                                                                         *)
(* Of the data, a part says which one it is, and whether its advert is an  *)
(* odd or an even one of its transmitter.  Legacy reports pass unchanged   *)
(* and are left out.                                                       *)
(***************************************************************************)
EXTENDS Integers, Sequences

CONSTANTS
  Advertisers,   \* (address, sid)
  MaxAge,        \* _max_age, in ticks
  MaxParts       \* bound of the model: reports of an advert, parts in a buffer

ASSUME ReassemblerAssumption == MaxAge \in Nat \ {0} /\ MaxParts \in Nat \ {0}

VARIABLES
  parts,    \* _parts: the age of the first part and the buffer, by advertiser
  joined,   \* what add() returned for the last report: parts, <<>> for None
  \* History.
  sending,  \* the parts sent of the current advert, by advertiser
  odd,      \* whether it is an odd one
  age,      \* ticks since its first part was sent, up to MaxAge + 1
  lossy,    \* a report was lost since the last final report that arrived
  ended     \* the advert whose final report this was: data, whether it is complete,
            \* could be joined in time, and no loss came before it

reassemblerVars == <<parts, joined, sending, odd, age, lossy, ended>>

NoAdvert == [data |-> <<>>, complete |-> FALSE, inTime |-> FALSE, clean |-> FALSE]

ReassemblerInit ==
  /\ parts = [a \in {} |-> <<>>] /\ joined = <<>>
  /\ sending = [a \in Advertisers |-> <<>>] /\ odd = [a \in Advertisers |-> FALSE]
  /\ age = [a \in Advertisers |-> 0] /\ lossy = [a \in Advertisers |-> FALSE]
  /\ ended = NoAdvert

Older(t) == IF t > MaxAge THEN t ELSE t + 1

ReassemblerTick ==
  /\ parts' = [a \in DOMAIN parts |-> [parts[a] EXCEPT !.age = Older(parts[a].age)]]
  /\ age' = [a \in Advertisers |-> IF sending[a] = <<>> THEN 0 ELSE Older(age[a])]
  /\ joined' = <<>> /\ ended' = NoAdvert
  /\ UNCHANGED <<sending, odd, lossy>>

-----------------------------------------------------------------------------
\* Mutant: at the age itself.
Unexpired_Early(ps) == [a \in {b \in DOMAIN ps : ps[b].age < MaxAge} |-> ps[a]]

\* expire(), which read_reports calls after each event.
Unexpired(ps) == [a \in {b \in DOMAIN ps : ps[b].age <= MaxAge} |-> ps[a]]

\* What is kept of an advertiser, or a buffer begun now.
Begun(a) == IF a \in DOMAIN parts THEN parts[a] ELSE [age |-> 0, buf |-> <<>>]

With(a, entry) == [b \in DOMAIN parts \cup {a} |-> IF b = a THEN entry ELSE parts[b]]

\* Mutant: what was truncated stays.
Popped_UnlessTruncated(a, status) ==
  IF status = "truncated" THEN parts ELSE [b \in DOMAIN parts \ {a} |-> parts[b]]

\* The final report of an advert takes the entry away, whatever comes of it.
Popped(a, status) == [b \in DOMAIN parts \ {a} |-> parts[b]]

\* add().
Add(a, status, part) ==
  IF status = "more"
    THEN /\ parts' = Unexpired(With(a, [Begun(a) EXCEPT !.buf = Append(@, part)]))
         /\ joined' = <<>>
    ELSE /\ parts' = Unexpired(Popped(a, status))
         /\ joined' = IF status = "truncated" \/ Begun(a).age > MaxAge
                        THEN <<>> ELSE Append(Begun(a).buf, part)

\* A report of an advertiser arrives, or is lost.
Report(a) ==
  \E status \in {"more", "complete", "truncated"}, arrives \in BOOLEAN :
    LET part == <<odd[a], Len(sending[a]) + 1>>
        data == Append(sending[a], part)
    IN
    /\ status = "more" => Len(data) < MaxParts /\ Len(Begun(a).buf) < MaxParts
    /\ IF arrives THEN Add(a, status, part) ELSE parts' = Unexpired(parts) /\ joined' = <<>>
    /\ lossy' = [lossy EXCEPT ![a] = ~arrives \/ (status = "more" /\ @)]
    /\ sending' = [sending EXCEPT ![a] = IF status = "more" THEN data ELSE <<>>]
    /\ odd' = [odd EXCEPT ![a] = IF status = "more" THEN @ ELSE ~@]
    /\ age' = [age EXCEPT ![a] = IF status = "more" THEN @ ELSE 0]
    /\ ended' = IF status # "more" /\ arrives
                  THEN [data |-> data, complete |-> status = "complete",
                        inTime |-> age[a] <= MaxAge, clean |-> ~lossy[a]]
                  ELSE NoAdvert

\* read_reports runs into its timeout.
ExpireOnly ==
  /\ parts' = Unexpired(parts) /\ joined' = <<>> /\ ended' = NoAdvert
  /\ UNCHANGED <<sending, odd, age, lossy>>

ReassemblerNext == ReassemblerTick \/ ExpireOnly \/ \E a \in Advertisers : Report(a)

ReassemblerSpec == ReassemblerInit /\ [][ReassemblerNext]_reassemblerVars
-----------------------------------------------------------------------------
(* Properties. *)

ReassemblerTypeOK ==
  /\ DOMAIN parts \subseteq Advertisers
  /\ \A a \in DOMAIN parts : parts[a].age \in 0..MaxAge + 1
  /\ age \in [Advertisers -> 0..MaxAge + 1] /\ lossy \in [Advertisers -> BOOLEAN]

\* An advert that is complete and in time is handed on as it was sent, and a truncated one
\* not at all, however adverts of other transmitters come in between and whatever an advert
\* before left behind.  Of one that is late only its end is handed on, as if it were all.  A
\* lost report spoils its own advert and, if it was the final one, the next, but none after
\* it (add 228-246, expire 248-251).
JoinedAsSent ==
  ended.clean =>
    /\ ended.inTime /\ ended.complete => joined = ended.data
    /\ ~ended.complete => joined = <<>>
    /\ \E k \in 1..Len(ended.data) + 1 : joined = SubSeq(ended.data, k, Len(ended.data))
=============================================================================
