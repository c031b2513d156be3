---------------------------- MODULE ThreadMemory -----------------------------
(***************************************************************************)
(* What the memory of a conversation thread promises, with no clock, no    *)
(* stamps and no agent loop: it holds only what tools have revealed, a     *)
(* reference means something the memory holds at that moment, short-term   *)
(* slots are forgotten whole, and a filed report is never forgotten.       *)
(* SessionMemory implements it.                                            *)
(***************************************************************************)
EXTENDS Integers, Sequences

CONSTANTS
  FocusTypes,      \* the typed focus slots
  Reports,         \* investigation reports
  None             \* an absent value

VARIABLES
  known,           \* entities tools have revealed
  focus,           \* the entity in focus, per type
  list,            \* the last result list
  report,          \* the last investigation report
  reference        \* what the current turn's reference means

memory == <<known, focus, list, report, reference>>

NoFocus == [type \in FocusTypes |-> None]
NoReference == [via |-> "none", type |-> "none", entity |-> None]

Init ==
  /\ known = {}
  /\ focus = NoFocus
  /\ list = <<>>
  /\ report = None
  /\ reference = NoReference

\* A tool reveals entities; nothing is remembered yet.
Reveal ==
  /\ known \subseteq known'
  /\ UNCHANGED <<focus, list, report, reference>>

\* A short-term slot is forgotten, all of it.
Forget ==
  /\ focus' \in {focus, NoFocus}
  /\ list' \in {list, <<>>}
  /\ UNCHANGED <<known, report, reference>>

\* A user's message is interpreted against what is still remembered: it refers
\* to nothing, to the entity in focus for its type, or to an item of the list,
\* and picking an item puts it in focus.
Interpret ==
  \E liveFocus \in {focus, NoFocus}, liveList \in {list, <<>>} :
    /\ list' = liveList
    /\ \/ /\ reference' = NoReference
          /\ focus' = liveFocus
       \/ \E type \in FocusTypes :
            /\ liveFocus[type] # None
            /\ reference' = [via |-> "reference", type |-> type, entity |-> liveFocus[type]]
            /\ focus' = liveFocus
       \/ \E i \in DOMAIN liveList :
            /\ reference' = [via |-> "indexed", type |-> "landlord", entity |-> liveList[i]]
            /\ focus' = [liveFocus EXCEPT !["landlord"] = liveList[i]]
    /\ UNCHANGED <<known, report>>

\* A turn's results are recorded: a slot keeps what it held or takes what was
\* revealed, and nothing that was held is lost.
Record ==
  /\ DOMAIN focus' = FocusTypes
  /\ \A type \in FocusTypes : focus'[type] \in known \cup {focus[type]}
  /\ \/ list' = list
     \/ list' # <<>> /\ \A i \in DOMAIN list' : list'[i] \in known
  /\ report' \in Reports \cup {report}
  /\ UNCHANGED <<known, reference>>

Next == Reveal \/ Forget \/ Interpret \/ Record

Spec == Init /\ [][Next]_memory
==============================================================================
