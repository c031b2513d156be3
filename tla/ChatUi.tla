------------------------------- MODULE ChatUi -------------------------------
(***************************************************************************)
(* One browser session of the Streamlit chat (watchline/discovery/ui/      *)
(* app.py and sidebar.py).  Every gesture reruns the script from its top;  *)
(* a run that is still going stops wherever it last touched the page or    *)
(* the session state, and what it wrote until then stays.                  *)
(*                                                                         *)
(* Abstracted: the answer's text, layout, cost and the agent, of which the *)
(* model keeps what its memory of a thread was told and at which trust.    *)
(***************************************************************************)
EXTENDS Integers, Sequences, FiniteSets

CONSTANTS
  PublicSamples, VettedSamples,   \* sample questions; the latter need trust
  MaxGestures,                    \* bound: what the user does in a session
  None

ASSUME UiAssumption ==
  /\ None \notin PublicSamples \cup VettedSamples
  /\ PublicSamples \cap VettedSamples = {}
  /\ \A s \in PublicSamples \cup VettedSamples \cup {None} : s \notin Nat
  /\ MaxGestures \in Nat

VARIABLES
  widgets,        \* what the sidebar shows: trust level and chosen sample
  gestures,       \* how many gestures there were
  script,         \* the run of the script: where it is and what it holds
  thread,         \* session_state.thread_id
  messages,       \* session_state.messages
  artifacts,      \* session_state.artifacts: reports and operator networks
  open_artifact,  \* session_state.open_artifact
  _last_sample,   \* session_state._last_sample
  last_evidence,  \* session_state.last_evidence and last_turn: the turn they are of
  turns,          \* turns sent so far
  memory,         \* the agent's checkpointed conversations
  submitted       \* ghost: samples sent, with the choice and the thread

session == <<thread, messages, artifacts, open_artifact, _last_sample, last_evidence>>
vars == <<widgets, gestures, script, session, turns, memory, submitted>>

sample_questions(trust) == IF trust = "vetted" THEN PublicSamples \cup VettedSamples ELSE PublicSamples

\* What a gesture tells the run it starts: a click, a typed prompt, or nothing
\* when a widget changed.
Click(click) == [click |-> click, typed |-> None, card |-> None]
Nothing == Click("nothing")
Idle == [at |-> "idle", step |-> 0, given |-> Nothing, trust |-> "public",
         prompt |-> None, deep |-> FALSE]
Run(given, trust) == [at |-> "top", step |-> 0, given |-> given, trust |-> trust,
                      prompt |-> None, deep |-> FALSE]

Init ==
  /\ widgets = [trust |-> "public", sample |-> None, choice |-> 0]
  /\ gestures = 0
  /\ script = Run(Nothing, "public")
  /\ thread = 1
  /\ messages = <<>>
  /\ artifacts = {}
  /\ open_artifact = None
  /\ _last_sample = None
  /\ last_evidence = None
  /\ turns = 0
  /\ memory = {}
  /\ submitted = {}

-----------------------------------------------------------------------------
(***************************************************************************)
(* Gestures.  Each ends the run that is going and starts the next one.     *)
(***************************************************************************)
Gesture(given, changed) ==
  /\ gestures < MaxGestures
  /\ gestures' = gestures + 1
  /\ widgets' = changed
  /\ script' = Run(given, changed.trust)
  /\ UNCHANGED <<session, turns, memory, submitted>>

\* mutant: the box keeps a sample the trust level no longer offers
SampleKept ==
  \E trust \in {"public", "vetted"} \ {widgets.trust} :
    Gesture(Nothing, [widgets EXCEPT !.trust = trust])

\* The options of the sample box depend on the trust level; a box whose options
\* change may fall back to its blank entry.
SelectTrust ==
  \E trust \in {"public", "vetted"} \ {widgets.trust} :
  \E sample \in {None} \cup ({widgets.sample} \cap sample_questions(trust)) :
    Gesture(Nothing, [widgets EXCEPT !.trust = trust, !.sample = sample])

SelectSample ==
  \E sample \in ({None} \cup sample_questions(widgets.trust)) \ {widgets.sample} :
    Gesture(Nothing, [widgets EXCEPT !.sample = sample, !.choice = gestures + 1])

Type == Gesture([Click("prompt") EXCEPT !.typed = gestures + 1], widgets)
ClickNewChat == Gesture(Click("new_chat"), widgets)
ClickOperators == Gesture(Click("operators"), widgets)
ClickClose == open_artifact # None /\ Gesture(Click("close"), widgets)

ClickCard ==
  \E i \in DOMAIN messages :
    /\ messages[i].card \notin {None, open_artifact}
    /\ Gesture([Click("card") EXCEPT !.card = messages[i].card], widgets)

Gestures == SelectTrust \/ SelectSample \/ Type \/ ClickNewChat \/ ClickOperators \/ ClickClose \/ ClickCard

-----------------------------------------------------------------------------
(***************************************************************************)
(* The script, one write to the session state at a time.                   *)
(***************************************************************************)
Goto(at) == script' = [script EXCEPT !.at = at, !.step = 1]
Rerun == script' = Run(Nothing, script.trust)

\* The sidebar: New chat and the operator analysis act before anything else.
Sidebar ==
  /\ script.at = "top"
  /\ Goto(IF script.given.click = "new_chat" THEN "resetting"
          ELSE IF script.given.click = "operators" THEN "analysing"
          ELSE "asking")
  /\ UNCHANGED <<widgets, gestures, session, turns, memory, submitted>>

MessagesFirst == <<"messages", "thread", "artifacts", "open", "sample", "evidence">>   \* mutant
ArtifactsFirst == <<"thread", "artifacts", "messages", "open", "sample", "evidence">>  \* mutant
ResetOrder == <<"thread", "messages", "artifacts", "open", "sample", "evidence">>

New(slot) == script.at = "resetting" /\ ResetOrder[script.step] = slot

\* New chat, one slot after the other, then a rerun.
Reset ==
  /\ script.at = "resetting"
  /\ thread' = IF New("thread") THEN thread + 1 ELSE thread
  /\ messages' = IF New("messages") THEN <<>> ELSE messages
  /\ artifacts' = IF New("artifacts") THEN {} ELSE artifacts
  /\ open_artifact' = IF New("open") THEN None ELSE open_artifact
  /\ _last_sample' = IF New("sample") THEN None ELSE _last_sample
  /\ last_evidence' = IF New("evidence") THEN None ELSE last_evidence
  /\ IF script.step = Len(ResetOrder) THEN Rerun ELSE script' = [script EXCEPT !.step = @ + 1]
  /\ UNCHANGED <<widgets, gestures, turns, memory, submitted>>

\* Top hidden operators: the analysis may raise, which ends the run.
AnalysisFails ==
  /\ script.at = "analysing" /\ script.step = 1
  /\ script' = Idle
  /\ UNCHANGED <<widgets, gestures, session, turns, memory, submitted>>

Operators ==
  /\ script.at = "analysing"
  /\ LET network == <<"network", gestures>> IN
       IF script.step = 1
       THEN /\ artifacts' = artifacts \cup {network}
            /\ script' = [script EXCEPT !.step = 2]
            /\ UNCHANGED open_artifact
       ELSE open_artifact' = network /\ Rerun /\ UNCHANGED artifacts
  /\ UNCHANGED <<widgets, gestures, thread, messages, _last_sample, last_evidence,
                 turns, memory, submitted>>

\* The prompt of this run: what was typed, else a sample not yet sent.
Unrecorded(pending) == _last_sample                  \* mutant: not noted as sent
Recorded(pending) == IF pending = None THEN _last_sample ELSE pending

_pending_sample == IF widgets.sample # _last_sample THEN widgets.sample ELSE None

Ask ==
  /\ script.at = "asking"
  /\ LET pending == IF script.given.typed = None THEN _pending_sample ELSE None IN
       /\ _last_sample' = Recorded(pending)
       /\ script' = [script EXCEPT !.at = "showing",
                       !.prompt = IF pending = None THEN script.given.typed ELSE pending]
  /\ UNCHANGED <<widgets, gestures, thread, messages, artifacts, open_artifact,
                 last_evidence, turns, memory, submitted>>

\* The transcript is drawn in every run: a click on a card reruns from there,
\* with whatever prompt the run held lost.
OpenCard ==
  /\ script.at = "showing" /\ script.given.click = "card"
  /\ open_artifact' = script.given.card
  /\ Rerun
  /\ UNCHANGED <<widgets, gestures, thread, messages, artifacts, _last_sample,
                 last_evidence, turns, memory, submitted>>

Message(turn, prompt, card) == [turn |-> turn, prompt |-> prompt, card |-> card]
User == 0                \* in place of the turn: the user's own message

Submit ==
  /\ script.at = "showing" /\ script.given.click # "card" /\ script.prompt # None
  /\ messages' = Append(messages, Message(User, script.prompt, None))
  /\ Goto("clearing")
  /\ UNCHANGED <<widgets, gestures, thread, artifacts, open_artifact, _last_sample,
                 last_evidence, turns, memory, submitted>>

\* No prompt: the panel of the open artifact is drawn, where it can be closed.
Display ==
  /\ script.at = "showing" /\ script.given.click # "card" /\ script.prompt = None
  /\ IF script.given.click = "close" /\ open_artifact \in artifacts
     THEN open_artifact' = None /\ Rerun
     ELSE script' = Idle /\ UNCHANGED open_artifact
  /\ UNCHANGED <<widgets, gestures, thread, messages, artifacts, _last_sample,
                 last_evidence, turns, memory, submitted>>

ClearEvidence ==
  /\ script.at = "clearing"
  /\ last_evidence' = None
  /\ Goto("sending")
  /\ UNCHANGED <<widgets, gestures, thread, messages, artifacts, open_artifact,
                 _last_sample, turns, memory, submitted>>

\* run_turn: the agent checkpoints the prompt on the thread before it answers.
Send ==
  /\ script.at = "sending"
  /\ turns' = turns + 1
  /\ memory' = memory \cup {[thread |-> thread, prompt |-> script.prompt, trust |-> script.trust]}
  /\ submitted' = IF script.prompt \in PublicSamples \cup VettedSamples
                  THEN submitted \cup {[sample |-> script.prompt, choice |-> widgets.choice,
                                        thread |-> thread, turn |-> turns + 1]}
                  ELSE submitted
  /\ Goto("streaming")
  /\ UNCHANGED <<widgets, gestures, session>>

\* The turn's events say whether the agent asked for a deep investigation.
Answered ==
  /\ script.at = "streaming"
  /\ \E deep \in BOOLEAN :
       script' = [script EXCEPT !.at = "finishing", !.step = 1, !.deep = deep]
  /\ UNCHANGED <<widgets, gestures, session, turns, memory, submitted>>

AgentRaises ==
  /\ script.at = "streaming"
  /\ script' = Idle
  /\ UNCHANGED <<widgets, gestures, session, turns, memory, submitted>>

AnswerFirst == <<"messages", "evidence", "artifacts", "open">>      \* mutant
FinishOrder == <<"evidence", "artifacts", "open", "messages">>

Report == <<"report", turns, script.prompt>>
Kept(slot) == FinishOrder[script.step] = slot

\* The answer is recorded, an investigation as an artifact with a card of its
\* own; an open artifact asks for a rerun into the split view.
Finish ==
  /\ script.at = "finishing"
  /\ last_evidence' = IF Kept("evidence") THEN turns ELSE last_evidence
  /\ artifacts' = IF Kept("artifacts") /\ script.deep THEN artifacts \cup {Report} ELSE artifacts
  /\ open_artifact' = IF Kept("open") /\ script.deep THEN Report ELSE open_artifact
  /\ messages' = IF Kept("messages")
                 THEN Append(messages, Message(turns, script.prompt, IF script.deep THEN Report ELSE None))
                 ELSE messages
  /\ script' = IF script.step < Len(FinishOrder) THEN [script EXCEPT !.step = @ + 1]
               ELSE IF open_artifact' # None THEN Run(Nothing, script.trust) ELSE Idle
  /\ UNCHANGED <<widgets, gestures, thread, _last_sample, turns, memory, submitted>>

Script ==
  \/ Sidebar \/ Reset \/ Operators \/ AnalysisFails \/ Ask \/ OpenCard \/ Submit \/ Display
  \/ ClearEvidence \/ Send \/ Answered \/ AgentRaises \/ Finish

Next == Gestures \/ Script
Spec == Init /\ [][Next]_vars

-----------------------------------------------------------------------------
Samples == PublicSamples \cup VettedSamples
Prompts == Samples \cup 1..MaxGestures
Artifacts == ({"network"} \X (1..MaxGestures)) \cup ({"report"} \X Nat \X Prompts)
OrNone(S) == S \cup {None}
Places == {"idle", "top", "resetting", "analysing", "asking", "showing", "clearing",
           "sending", "streaming", "finishing"}

\* Types: the session holds what the widgets can offer and the turns produced.
TypeOK ==
  /\ widgets.trust \in {"public", "vetted"}
  /\ widgets.sample \in OrNone(sample_questions(widgets.trust))
  /\ gestures \in 0..MaxGestures
  /\ script.at \in Places /\ script.prompt \in OrNone(Prompts)
  /\ thread \in 1..(MaxGestures + 1)
  /\ \A i \in DOMAIN messages :
       /\ messages[i].turn \in 0..turns /\ messages[i].prompt \in Prompts
       /\ messages[i].card \in OrNone(Artifacts)
  /\ artifacts \subseteq Artifacts /\ open_artifact \in OrNone(Artifacts)
  /\ _last_sample \in OrNone(Samples)
  /\ last_evidence \in OrNone(1..turns)
  /\ \A said \in memory : said.thread \in 1..thread /\ said.prompt \in Prompts

\* The agent answers out of nothing the user cannot see: every prompt the
\* current thread remembers stands in the transcript, wherever New chat or a
\* turn was cut short.
NothingRememberedUnshown ==
  \A said \in memory : said.thread = thread =>
    \E i \in DOMAIN messages : messages[i].turn = User /\ messages[i].prompt = said.prompt

\* A card in the transcript opens a report that is there, and it is the report
\* of the prompt the card stands under.
CardsResolve ==
  \A i \in DOMAIN messages : messages[i].card # None =>
    /\ messages[i].card \in artifacts
    /\ messages[i].card[3] = messages[i].prompt

\* Cost and evidence are drawn under the transcript: when its last message is an
\* answer, the evidence is that answer's.
AnswerHasItsEvidence ==
  messages # <<>> /\ messages[Len(messages)].turn # User =>
    last_evidence = messages[Len(messages)].turn

\* One choice of a sample is sent to a conversation once, whatever reruns the
\* script in between.
SampleOncePerThread ==
  \A s, t \in submitted : s.choice = t.choice /\ s.thread = t.thread => s = t

\* "Return a freshly-chosen sample once, so it submits a single time."
SampleSubmittedOnce == \A s, t \in submitted : s.choice = t.choice => s = t

=============================================================================
