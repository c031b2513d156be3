-------------------------- MODULE AddressResolution --------------------------
(***************************************************************************)
(* resolve_address (watchline/discovery/agent/tools/address.py), the       *)
(* Geosupport client it calls (geocode.py) and the sidecar behind it       *)
(* (sidecar/app.py).  Calls run side by side; the sidecar may stop and     *)
(* come back between any two requests.                                     *)
(*                                                                         *)
(* Abstracted: a typed address is whether a house number splits off it,    *)
(* a street dictionary entry is a model value, and what Geosupport answers *)
(* is free: its dictionary is not modelled, so two requests may get any    *)
(* two answers.                                                            *)
(***************************************************************************)
EXTENDS Integers, Sequences, FiniteSets

CONSTANTS
  Calls,            \* invocations of the tool
  Lots,             \* tax lots Geosupport knows
  Buildings,        \* those the graph holds a Building for
  Streets,          \* names in the street dictionary
  MAX_CANDIDATES,
  MaxSimilar,       \* bound: similar names Geosupport offers (10 in reality)
  NULL_BBL,         \* the all-zero lot that stands for none
  None              \* no lot: the components are missing or incomplete

\* What the sidecar may hand back: a return code (GRC) with, as the code may
\* have them, a lot or a list of similar street names.
Response ==
  [grc : {"00"}, bbl : Lots \cup {None, NULL_BBL}, names : {<<>>}]
  \cup [grc : {"EE"}, bbl : {None}, names : UNION {[1..n -> Streets] : n \in 0..MaxSimilar}]
  \cup [grc : {"13", "unclassified"}, bbl : {None}, names : {<<>>}]

ASSUME AddressAssumption ==
  /\ Buildings \subseteq Lots
  /\ None \notin Lots /\ NULL_BBL \notin Lots
  /\ MAX_CANDIDATES \in Nat /\ MaxSimilar \in Nat

Typed == [blank : BOOLEAN, house : BOOLEAN, borough : {"blank", "unknown", "known"}]

VARIABLES
  sidecar,          \* "up" or "down"
  phase,            \* where each call stands
  typed,            \* what the model passed in
  first,            \* result of the first attempt
  result,           \* the attempt that counts
  answer,           \* what the tool returned
  heard             \* ghost: the responses the sidecar gave to each call

attempts == <<typed, first, result>>
vars == <<sidecar, phase, attempts, answer, heard>>

-----------------------------------------------------------------------------
(***************************************************************************)
(* interpret: one Geosupport response as a distinct outcome.               *)
(***************************************************************************)
Shown(names) == SubSeq(names, 1, IF Len(names) < MAX_CANDIDATES THEN Len(names) ELSE MAX_CANDIDATES)

Outcome(o) == [outcome |-> o, bbl |-> None, candidates |-> <<>>, total |-> 0]

Ambiguous(names) ==
  [Outcome("street_ambiguous") EXCEPT !.candidates = Shown(names), !.total = Len(names)]

NullKept(components) == components      \* mutant: the sentinel passes for a lot
compose_bbl(components) == IF components = NULL_BBL THEN None ELSE components

Interpret(response) ==
  IF response.grc = "00"
  THEN IF compose_bbl(response.bbl) # None
       THEN [Outcome("resolved") EXCEPT !.bbl = compose_bbl(response.bbl)]
       ELSE Outcome("no_tax_lot")
  ELSE IF response.grc = "EE"
  THEN IF response.names # <<>> THEN Ambiguous(response.names)
       ELSE Outcome("street_not_recognized")
  ELSE IF response.grc = "13" THEN Outcome("invalid_input")
  ELSE Outcome("failed")

Unavailable == Outcome("unavailable")
StreetFailures == {"street_ambiguous", "street_not_recognized"}

-----------------------------------------------------------------------------
NoAnswer == [status |-> "none", bbl |-> None, candidates |-> <<>>, truncated |-> FALSE]

Init ==
  /\ sidecar \in {"up", "down"}
  /\ phase = [c \in Calls |-> "idle"]
  /\ typed = [c \in Calls |-> [blank |-> TRUE, house |-> FALSE, borough |-> "blank"]]
  /\ first = [c \in Calls |-> Unavailable]
  /\ result = [c \in Calls |-> Unavailable]
  /\ answer = [c \in Calls |-> NoAnswer]
  /\ heard = [c \in Calls |-> <<>>]

Goto(c, p) == phase' = [phase EXCEPT ![c] = p]
Return(c, a) == Goto(c, "done") /\ answer' = [answer EXCEPT ![c] = a]

\* The sidecar stops, or comes back.
SidecarFlips ==
  /\ sidecar' = IF sidecar = "up" THEN "down" ELSE "up"
  /\ UNCHANGED <<phase, attempts, answer, heard>>

\* The model calls the tool: input that names no address or no borough of the
\* five is turned away before anything is asked.
Refusal(input) ==
  IF input.blank THEN "invalid_input"
  ELSE IF input.borough # "known" THEN "invalid_borough"
  ELSE "none"

Call(c) ==
  /\ phase[c] = "idle"
  /\ \E input \in Typed :
       /\ typed' = [typed EXCEPT ![c] = input]
       /\ IF Refusal(input) = "none"
          THEN Goto(c, "first") /\ UNCHANGED answer
          ELSE Return(c, [NoAnswer EXCEPT !.status = Refusal(input)])
  /\ UNCHANGED <<sidecar, first, result, heard>>

\* GeosupportClient.resolve: one request, no retry; an outage, a timeout or an
\* unusable body is an outcome of its own.
Asking(c, attempt) ==
  \/ /\ attempt = Unavailable
     /\ UNCHANGED heard
  \/ /\ sidecar = "up"
     /\ \E response \in Response :
          /\ attempt = Interpret(response)
          /\ heard' = [heard EXCEPT ![c] = Append(@, response)]

Attempts == {Unavailable} \cup {Interpret(response) : response \in Response}

SettleOn(c, attempt) == Goto(c, "settled") /\ result' = [result EXCEPT ![c] = attempt]

\* _geocode, first half: a street that was not recognised, with a house number
\* split off, is asked for again.
FirstAttempt(c) ==
  /\ phase[c] = "first"
  /\ \E attempt \in Attempts :
       /\ Asking(c, attempt)
       /\ first' = [first EXCEPT ![c] = attempt]
       /\ IF attempt.outcome \in StreetFailures /\ typed[c].house
          THEN Goto(c, "retry") /\ UNCHANGED result
          ELSE SettleOn(c, attempt)
  /\ UNCHANGED <<sidecar, typed, answer>>

\* _geocode, second half: the whole string as the street name.
LastWins(retry, earlier) == retry          \* mutant: the retry always counts
Better(retry, earlier) == IF retry.outcome \notin StreetFailures THEN retry ELSE earlier

\* mutant: a retry that meets an outage is made again
RetriedUntilUp(c) ==
  /\ phase[c] = "retry"
  /\ \E attempt \in Attempts :
       /\ Asking(c, attempt)
       /\ IF attempt = Unavailable
          THEN UNCHANGED <<phase, result>>
          ELSE SettleOn(c, Better(attempt, first[c]))
  /\ UNCHANGED <<sidecar, typed, first, answer>>

Retry(c) ==
  /\ phase[c] = "retry"
  /\ \E attempt \in Attempts : Asking(c, attempt) /\ SettleOn(c, Better(attempt, first[c]))
  /\ UNCHANGED <<sidecar, typed, first, answer>>

OutageHidden(r) ==                 \* mutant: an outage reads as an unknown street
  IF r.outcome = "unavailable" THEN "street_not_recognized" ELSE r.outcome

Unconfirmed(r) ==                  \* mutant: the lot is not looked up in the graph
  IF r.outcome = "unavailable" THEN "geocoder_unavailable" ELSE r.outcome

\* resolve_address: a lot is a candidate until the graph confirms it; that read
\* may raise, and nothing here catches it.
Status(r) ==
  IF r.outcome = "resolved"
  THEN IF r.bbl \in Buildings THEN "resolved" ELSE "geocoded_but_absent"
  ELSE IF r.outcome = "unavailable" THEN "geocoder_unavailable" ELSE r.outcome

Answer(c) ==
  /\ phase[c] = "settled"
  /\ LET r == result[c] IN
       Return(c, [status |-> Status(r), bbl |-> r.bbl, candidates |-> r.candidates,
                  truncated |-> r.total > Len(r.candidates)])
  /\ UNCHANGED <<sidecar, attempts, heard>>

Raise(c) ==
  /\ phase[c] = "settled" /\ result[c].outcome = "resolved"
  /\ Goto(c, "raised")
  /\ UNCHANGED <<sidecar, attempts, answer, heard>>

Step(c) == Call(c) \/ FirstAttempt(c) \/ Retry(c) \/ Answer(c) \/ Raise(c)
Next == SidecarFlips \/ \E c \in Calls : Step(c)
Spec == Init /\ [][Next]_vars

\* A call that was made runs on in its thread: a request ends by an answer or by
\* its timeout.  The sidecar owes nothing.
FairSpec == Spec /\ \A c \in Calls : WF_vars(FirstAttempt(c) \/ Retry(c) \/ Answer(c) \/ Raise(c))

-----------------------------------------------------------------------------
Phases == {"idle", "first", "retry", "settled", "done", "raised"}
Outcomes == {"resolved", "no_tax_lot", "street_ambiguous", "street_not_recognized",
             "invalid_input", "unavailable", "failed"}
Attempted == [outcome : Outcomes, bbl : Lots \cup {None}, candidates : Seq(Streets), total : Nat]
Statuses == {"none", "resolved", "geocoded_but_absent", "no_tax_lot", "street_ambiguous",
             "street_not_recognized", "invalid_input", "invalid_borough",
             "geocoder_unavailable", "failed"}

\* Types: every call stands somewhere, and holds attempts of the shape the
\* client builds.
TypeOK ==
  /\ sidecar \in {"up", "down"}
  /\ phase \in [Calls -> Phases]
  /\ typed \in [Calls -> Typed]
  /\ first \in [Calls -> Attempted]
  /\ result \in [Calls -> Attempted]
  /\ answer \in [Calls -> [status : Statuses, bbl : Lots \cup {None},
                           candidates : Seq(Streets), truncated : BOOLEAN]]
  /\ heard \in [Calls -> Seq(Response)]

Answered(c) == phase[c] = "done" /\ Refusal(typed[c]) = "none"
Heard(c) == {heard[c][i] : i \in 1..Len(heard[c])}

\* "Never reported as 'not found', which would look like a data gap rather than
\* an outage": whatever an answer says of the address, the city's dictionary
\* said in this very call; a call that heard nothing says geocoder_unavailable.
VerdictWasHeard ==
  \A c \in Calls : Answered(c) =>
    \/ answer[c].status = "geocoder_unavailable"
    \/ \E response \in Heard(c) : answer[c].status = Status(Interpret(response))

\* A building the tool names is the lot of the last response, and the graph has
\* it: neither an earlier attempt nor an unconfirmed candidate is handed back.
NamedIsConfirmed ==
  \A c \in Calls : Answered(c) /\ answer[c].status = "resolved" =>
    /\ answer[c].bbl \in Buildings
    /\ answer[c].bbl = heard[c][Len(heard[c])].bbl

\* "A capped list of candidate streets ... never a silent best guess": the
\* candidates are the head of the list the FIRST spelling brought back, and
\* the truncated flag says whether there were more.
CandidatesHonest ==
  \A c \in Calls : Answered(c) /\ answer[c].status = "street_ambiguous" =>
    LET offered == heard[c][1].names IN
      /\ answer[c].candidates = Shown(offered)
      /\ answer[c].truncated <=> Len(offered) > MAX_CANDIDATES

\* A call that was made is answered or raises, whatever the sidecar does.
CallEnds == \A c \in Calls : phase[c] = "first" ~> phase[c] \in {"done", "raised"}

\* "Prefer the retry only when it does better; otherwise the first attempt's
\* result - including its candidate list - is the more useful answer": a list
\* of candidates gives way to nothing but a lot.
CandidatesKept ==
  \A c \in Calls : phase[c] = "settled" /\ first[c].candidates # <<>> =>
    result[c].outcome \in {"resolved", "no_tax_lot", "street_ambiguous"}

=============================================================================
