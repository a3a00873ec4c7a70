------------------------------ MODULE X10Widget ------------------------------
(***************************************************************************)
(* The plasmoid's configuration dialog: the rules and the nodes            *)
(* (widget/plasmoid/x10-widget.cpp, x10-widget-settings.cpp,               *)
(* nodes-model.cpp, control-widgetinfo.cpp), with the path of the rules to *)
(* x10_service and back (data_engine/job.cpp, engine.cpp, common/rule.cpp).*)
(*                                                                         *)
(* Rules are kept four times: in the service, in the data engine, in the   *)
(* widget (m_rules) and, while the dialog is open, as they were            *)
(* (m_rulesSaved); the dialog shows a list of rows and, in the form, the   *)
(* rule of the current row.  The dialog edits m_rules itself, and every    *)
(* property update from the service, whatever property it is about,        *)
(* replaces m_rules if the engine's rules differ from them.                *)
(*                                                                         *)
(* A rule is cut down to the pieces that loadRule fills in one after       *)
(* another: enabled and the address, the time, the days and the type of    *)
(* the action, the text of the action, the repeats (times and period as    *)
(* one, and within what the dialog's boxes can hold).                      *)
(***************************************************************************)
EXTENDS Integers, Sequences, SequencesExt, FiniteSets

CONSTANTS
  ValidAddresses, \* rule addresses that Rule::validateAddress accepts
  BadAddresses,   \* and others
  Times,          \* seconds of the day of rules
  Days,           \* sets of days
  Kinds,          \* types of actions
  Texts,          \* texts of actions
  Refused,        \* pairs of them that validateRuleAction refuses
  Unreadable,     \* texts that break the text of a rule, with a comma in them
  Repeats,        \* times and periods of repeats
  NewRule,        \* Rule::Rule()
  Blank,          \* days, type, text and repeats of an empty form
  PageTime,       \* the time on a page that is new (rules.ui)
  OtherRules,     \* the lists of rules that other clients set
  Channels,       \* house codes, in their order
  CutNames,       \* names of nodes with a '/' in them
  Cut,            \* what a node with such a name is read back as
  LastUnit,       \* 16
  MaxRules,       \* bound: rules in the dialog
  MaxNodes,       \* bound: nodes in the dialog
  MaxActs         \* bound: acts of the user and of other clients

Whos  == ValidAddresses \cup BadAddresses
Rules == [enabled : BOOLEAN, who : Whos, time : Times, days : Days, kind : Kinds,
          text : Texts, repeats : Repeats]

Minute(t) == (t \div 60) * 60

ASSUME TimesAssumption ==
  /\ Times \subseteq Nat /\ 0 \in Times
  /\ \A t \in Times : t < 86400 /\ Minute(t) \in Times

ASSUME RulesAssumption ==
  /\ NewRule \in Rules
  /\ Blank \in [days : Days, kind : Kinds, text : Texts, repeats : Repeats]
  /\ PageTime \in Times /\ Minute(PageTime) = PageTime
  /\ OtherRules \subseteq Seq(Rules)

ASSUME NodesAssumption ==
  /\ Channels \in Seq(STRING) \ {<<>>} /\ LastUnit \in Nat \ {0}
  /\ "Untitled" \notin CutNames /\ "" \notin CutNames
  /\ Cut \in [CutNames -> [name : {"Untitled", ""}, channel : Int, unit : Int]]

ASSUME BoundsAssumption == MaxRules \in Nat /\ MaxNodes \in Nat /\ MaxActs \in Nat

VARIABLES
  service,  \* RuleManager::m_listRules of x10_service
  data,     \* the engine's data for PROPERTY_RULES
  due,      \* dataUpdated of the properties is due
  signals,  \* PropertyUpdated on its way
  jobs,     \* SetProperty jobs that have not run yet
  rules,    \* m_rules
  saved,    \* m_rulesSaved
  open,     \* the dialog is open
  linked,   \* RulesUpdated is connected to ruleSettingsInvalidate
  rows,     \* listWidgetRules->count()
  row,      \* listWidgetRules->currentRow()
  form,     \* the fields of the page
  nodes,    \* NodesModel::m_nodes
  shown,    \* the addresses of their controls
  disk,     \* the nodes that writeConfig wrote
  acts,     \* acts so far
  typed,    \* history: the user gave a node an address, or none was left
  parted,   \* history: the widget's rules were left behind, see RulesAgree
  missed    \* history: rules of the service did not reach the engine

remote == <<service, data, due, signals, jobs, missed>>
dialog == <<rules, saved, open, linked, rows, row, form>>
vars   == <<remote, dialog, nodes, shown, disk, acts, typed, parted>>

NoRow == -1

\* PropertyUpdated of the rules, or of any other property.
PropertyUpdated(list) == [about |-> "rules", list |-> list]
Other == [about |-> "other", list |-> <<>>]

\* struck, crossed: the address and the text of the action are struck out.
\* half: the rule was saved when only half of it was in the form (history).
EmptyForm == [enabled |-> FALSE, who |-> "", time |-> 0, days |-> Blank.days,
              kind |-> Blank.kind, text |-> Blank.text, repeats |-> Blank.repeats,
              struck |-> FALSE, crossed |-> FALSE, half |-> FALSE]
Forms == [enabled : BOOLEAN, who : Whos \cup {""}, time : Times, days : Days, kind : Kinds,
          text : Texts, repeats : Repeats,
          struck : BOOLEAN, crossed : BOOLEAN, half : BOOLEAN]

\* The form of a page that is new.
NewForm == [EmptyForm EXCEPT !.time = PageTime]

\* NodesModel: a channel is kept as its place in Channels; other characters are
\* numbered on from there.
Node(name, c, u) == [name |-> name, channel |-> c, unit |-> u]
Address(n) == <<n.channel, n.unit>>
NodeSet == [name : {"Untitled", ""} \cup CutNames, channel : Int, unit : Int]

Act == acts < MaxActs /\ acts' = acts + 1
-----------------------------------------------------------------------------
(***************************************************************************)
(* Rules as text, and back.                                                *)
(***************************************************************************)
\* Rule::deserialize: a rule whose address is not valid is disabled.
Checked(r) == [r EXCEPT !.enabled = @ /\ r.who \in ValidAddresses]

\* The rules that can be read among the first i.
Readable(list, i) == {j \in 1 .. i : list[j].text \notin Unreadable}

\* Rule::deserializeRules of Rule::serializedRules.
Deserialize(list) ==
  [k \in 1 .. Cardinality(Readable(list, Len(list))) |->
     Checked(list[CHOOSE i \in Readable(list, Len(list)) : Cardinality(Readable(list, i)) = k])]
-----------------------------------------------------------------------------
(***************************************************************************)
(* The form.                                                               *)
(***************************************************************************)
\* saveRule: what is struck out is not taken over.
SavedRule(r, f) ==
  [enabled |-> f.enabled, who |-> IF f.struck THEN r.who ELSE f.who, time |-> f.time,
   days |-> f.days, kind |-> f.kind, text |-> IF f.crossed THEN r.text ELSE f.text,
   repeats |-> f.repeats]

\* Rows count from 0, sequences from 1.
Save(list, i, f) ==
  IF i = NoRow \/ i >= Len(list) THEN list
  ELSE [list EXCEPT ![i + 1] = SavedRule(@, f)]

\* An address that was struck out is put back, a text is left as it is.
AfterSave(list, i, f) ==
  IF i = NoRow \/ i >= Len(list) THEN f
  ELSE [f EXCEPT !.half = FALSE, !.struck = FALSE,
                 !.who = IF f.struck THEN list[i + 1].who ELSE @]

\* loadRule up to the time ...
HalfLoaded(f, r) ==
  [f EXCEPT !.enabled = r.enabled, !.who = r.who, !.time = Minute(r.time)]

\* ... whose change is taken for one the user made if the rule has seconds: then
\* the rule is saved with what else the form shows, still of the row before.
SavesEarly(f, r) == f.time # Minute(r.time) /\ r.time # Minute(r.time)

\* loadRule(i) with the form f, for a row.  A rule that was saved early is saved
\* again, whole, if its repeats change the boxes.
LoadedForm(list, i, f) ==
  LET r == list[i + 1]
      early == SavesEarly(f, r)
  IN  [HalfLoaded(f, r) EXCEPT !.days = r.days, !.kind = r.kind, !.text = r.text,
                               !.repeats = r.repeats,
                               !.struck = @ /\ ~early, !.crossed = FALSE,
                               !.half = early /\ f.repeats = r.repeats]

\* A faulty LoadedRules: the boxes of the repeats are not listened to.
LoadedRulesOnce(list, i, f) ==
  IF SavesEarly(f, list[i + 1]) THEN Save(list, i, HalfLoaded(f, list[i + 1])) ELSE list

LoadedRules(list, i, f) ==
  LET r == list[i + 1]
      once == Save(list, i, HalfLoaded(f, r))
  IN  IF ~SavesEarly(f, r) THEN list
      ELSE IF f.repeats = r.repeats THEN once
      ELSE Save(once, i, LoadedForm(list, i, f))

\* loadRule(i).  loadRule(-1) leaves the EmptyForm: the handlers that it calls
\* save no row, but read the time and the repeats of m_rules[-1], see Crash.
loadRule(list, i, f) == rules' = LoadedRules(list, i, f) /\ form' = LoadedForm(list, i, f)
-----------------------------------------------------------------------------
(***************************************************************************)
(* The rules page.                                                         *)
(***************************************************************************)
ruleCurrentItemChanged ==
  /\ Act
  /\ open
  /\ \E i \in 0 .. rows - 1 :
       /\ i # row
       /\ row' = i
       /\ loadRule(rules, i, form)
  /\ UNCHANGED <<remote, saved, open, linked, rows, nodes, shown, disk, typed, parted>>

\* ruleSettingsModified, after the user has changed one field of the form.
Modified(f) == rules' = Save(rules, row, f) /\ form' = AfterSave(rules, row, f)

\* The line for the text is there for the actions that have one.
HasText(kind) == \E x \in Texts : <<kind, x>> \in Refused

\* The type of the action decides whether its text is struck out.
EditRule ==
  /\ Act
  /\ open /\ row # NoRow
  /\ \/ Modified([form EXCEPT !.enabled = ~@])
     \/ \E t \in {t \in Times : t = Minute(t)} : t # form.time /\ Modified([form EXCEPT !.time = t])
     \/ \E d \in Days : d # form.days /\ Modified([form EXCEPT !.days = d])
     \/ \E k \in Kinds :
          /\ k # form.kind
          /\ Modified([form EXCEPT !.kind = k, !.crossed = <<k, form.text>> \in Refused])
     \/ \E n \in Repeats : n # form.repeats /\ Modified([form EXCEPT !.repeats = n])
  /\ UNCHANGED <<remote, saved, open, linked, rows, row, nodes, shown, disk, typed, parted>>

\* An address or a text that is not valid is struck out and not saved.
EditText ==
  /\ Act
  /\ open /\ row # NoRow
  /\ \/ \E a \in ValidAddresses :
          a # form.who /\ Modified([form EXCEPT !.who = a, !.struck = FALSE])
     \/ /\ \E a \in BadAddresses : form' = [form EXCEPT !.who = a, !.struck = TRUE]
        /\ UNCHANGED rules
     \/ \E x \in Texts :
          /\ HasText(form.kind) /\ <<form.kind, x>> \notin Refused /\ x # form.text
          /\ Modified([form EXCEPT !.text = x, !.crossed = FALSE])
     \/ /\ \E x \in Texts :
             /\ <<form.kind, x>> \in Refused /\ x # form.text
             /\ form' = [form EXCEPT !.text = x, !.crossed = TRUE]
        /\ UNCHANGED rules
  /\ UNCHANGED <<remote, saved, open, linked, rows, row, nodes, shown, disk, typed, parted>>

ruleButtonAdd ==
  /\ Act
  /\ open /\ Len(rules) < MaxRules
  /\ loadRule(Append(rules, NewRule), rows, form)
  /\ rows' = rows + 1
  /\ row' = rows
  /\ UNCHANGED <<remote, saved, open, linked, nodes, shown, disk, typed, parted>>

\* The list moves to the row below, or above, before the row goes away.
Neighbour == IF row + 1 < rows THEN row + 1 ELSE row - 1

\* The row above, or below, is loaded before the rule is taken out.
NeighbourLoaded ==
  IF Neighbour = NoRow THEN rules ELSE LoadedRules(rules, Neighbour, form)

\* A faulty ruleButtonRem: the row does not move up.
ruleButtonRemStaying ==
  /\ Act
  /\ open /\ row # NoRow
  /\ rules' = RemoveAt(NeighbourLoaded, row + 1)
  /\ form' = IF Neighbour = NoRow THEN EmptyForm ELSE LoadedForm(rules, Neighbour, form)
  /\ rows' = rows - 1
  /\ UNCHANGED <<remote, saved, open, linked, row, nodes, shown, disk, typed, parted>>

ruleButtonRem ==
  /\ Act
  /\ open /\ row # NoRow
  /\ rules' = RemoveAt(NeighbourLoaded, row + 1)
  /\ form' = IF Neighbour = NoRow THEN EmptyForm ELSE LoadedForm(rules, Neighbour, form)
  /\ rows' = rows - 1
  /\ row' = IF row + 1 < rows THEN row ELSE row - 1
  /\ UNCHANGED <<remote, saved, open, linked, nodes, shown, disk, typed, parted>>
-----------------------------------------------------------------------------
(***************************************************************************)
(* The nodes page: the model is edited in place.                           *)
(***************************************************************************)
\* A faulty Taken: the first node is not looked at.
TakenButFirst(c) == {nodes[i].unit : i \in {j \in 2 .. Len(nodes) : nodes[j].channel = c}}

Taken(c) == {nodes[i].unit : i \in {j \in DOMAIN nodes : nodes[j].channel = c}}

Free(c) == (1 .. LastUnit) \ Taken(c)

\* The k-th house after c, around the end of the houses; but from a character
\* behind the last house on, the characters that follow.
HouseAfter(c, k) ==
  IF c > Len(Channels) \/ c + k <= Len(Channels) THEN c + k
  ELSE 1 + ((c + k - 1) % Len(Channels))

\* How far behind c there is a house with a free unit.
Untaken(c) == {k \in 0 .. Len(Channels) - 1 : Free(HouseAfter(c, k)) # {}}

\* findUnitAvailable: the first free unit of the first node's house, or of the
\* first house after it that has one; unit 1 of the house behind if none has.
AvailableFrom(c) ==
  IF Untaken(c) = {} THEN Node("Untitled", HouseAfter(c, Len(Channels)), 1)
  ELSE LET h == HouseAfter(c, CHOOSE k \in Untaken(c) : \A l \in Untaken(c) : k <= l)
       IN  Node("Untitled", h, CHOOSE u \in Free(h) : \A v \in Free(h) : u <= v)

\* layoutControlWidgets: each node's control gets the address of the node.
layoutControlWidgets == shown' = [i \in DOMAIN nodes' |-> Address(nodes'[i])]

FirstHouse == IF nodes = <<>> THEN 1 ELSE nodes[1].channel

insertRows ==
  /\ nodes' = <<AvailableFrom(FirstHouse)>> \o nodes
  /\ typed' = (typed \/ Untaken(FirstHouse) = {})

nodeButtonAdd ==
  /\ Act
  /\ open /\ Len(nodes) < MaxNodes
  /\ insertRows
  /\ layoutControlWidgets
  /\ UNCHANGED <<remote, dialog, disk, parted>>

removeRows(i) == nodes' = RemoveAt(nodes, i)

\* The control goes first.
nodeButtonRem ==
  /\ Act
  /\ open
  /\ \E i \in DOMAIN nodes : removeRows(i) /\ shown' = RemoveAt(shown, i)
  /\ UNCHANGED <<remote, dialog, disk, typed, parted>>

\* setData: a unit is forced into 0..16 and a channel into A..P, a name is taken
\* as it is.
Clamp(v, low, high) == IF v > high THEN high ELSE IF v < low THEN low ELSE v

setData ==
  /\ Act
  /\ open
  /\ \E i \in DOMAIN nodes :
       \/ \E name \in {""} \cup CutNames :
            /\ nodes' = [nodes EXCEPT ![i].name = name]
            /\ typed' = (typed \/ name \in CutNames)
       \/ \E c \in 0 .. Len(Channels) + 1 :
            /\ nodes' = [nodes EXCEPT ![i].channel = Clamp(c, 1, Len(Channels))]
            /\ typed' = TRUE
       \/ \E u \in {-1, 1, LastUnit + 1} :
            /\ nodes' = [nodes EXCEPT ![i].unit = Clamp(u, 0, LastUnit)]
            /\ typed' = TRUE
  /\ UNCHANGED <<remote, dialog, shown, disk, parted>>
-----------------------------------------------------------------------------
(***************************************************************************)
(* The dialog.                                                             *)
(***************************************************************************)
\* rulesToCfg: m_rulesSaved and the list are those of the rules given; no row is
\* current, and if one was, loadRule(-1) is called.
rulesToCfg(list) ==
  /\ saved' = list
  /\ rows' = Len(list)
  /\ row' = NoRow
  /\ form' = IF row = NoRow THEN form ELSE EmptyForm

createConfigurationInterface ==
  /\ Act
  /\ ~open
  /\ open' = TRUE
  /\ linked' = TRUE
  /\ saved' = rules /\ rows' = Len(rules) /\ row' = NoRow /\ form' = NewForm
  /\ UNCHANGED <<remote, rules, nodes, shown, disk, typed, parted>>

\* The button Defaults writes the page of the rules anew, too: the rules as they
\* are edited pass for those the dialog began with.
settingsRestoreDefaults ==
  /\ Act
  /\ open
  /\ rulesToCfg(rules)
  /\ parted' = (parted \/ rules # saved)
  /\ UNCHANGED <<remote, rules, open, linked, nodes, shown, disk, typed>>

\* No job is started without a valid engine or the operation.
SetProperty(list, started) == jobs' = IF started THEN Append(jobs, list) ELSE jobs

writeConfig == disk' = nodes

\* The fields of a node are joined with '/' and split at it: behind a name with a
\* '/' in it they are not what they were.
ReadBack(n) == IF n.name \in CutNames THEN Cut[n.name] ELSE n

\* The nodes that NodesModel::readConfig keeps.
Valid(list) == {i \in DOMAIN list : ReadBack(list[i]).name # ""}

\* The nodes of the configuration file are read only if there are none, in the
\* order of a hash table.
readConfig(list) ==
  /\ IF list # <<>> THEN nodes' = list
     ELSE \E order \in Injection(1 .. Cardinality(Valid(disk')), Valid(disk')) :
            nodes' = [k \in DOMAIN order |-> ReadBack(disk'[order[k]])]
  /\ layoutControlWidgets

\* configAccepted, and configChanged once it is done.  m_rulesSaved stays as it
\* is, and so does the connection of RulesUpdated: disconnect(this,
\* SIGNAL(RulesUpdated())) names the receiver and its member, and nothing is
\* connected to that signal.
configAccepted(left) ==
  /\ open
  /\ rules' = Save(rules, row, form)
  /\ \E started \in BOOLEAN :
       /\ IF rules' # saved THEN SetProperty(rules', started) ELSE UNCHANGED jobs
       /\ parted' = (parted \/ left \/ (rules' # saved /\ (~started \/ rules' = <<>>)))
  /\ writeConfig
  /\ readConfig(nodes)
  /\ UNCHANGED <<service, data, due, signals, missed, saved, linked, typed>>

\* The dialog, its pages and the list on them are deleted.
Closed ==
  /\ open' = FALSE
  /\ rows' = 0 /\ row' = NoRow /\ form' = EmptyForm

okClicked == Act /\ configAccepted(FALSE) /\ Closed

applyClicked ==
  /\ Act
  /\ configAccepted(TRUE)
  /\ form' = AfterSave(rules, row, form)
  /\ UNCHANGED <<open, rows, row>>

\* A faulty configCancelled: the edited rules stay.
configCancelledKeeping ==
  /\ Act
  /\ open /\ Closed
  /\ UNCHANGED <<remote, rules, saved, linked, nodes, disk, typed, parted>>
  /\ layoutControlWidgets

\* Another: the controls are not laid out.
configCancelledBare ==
  /\ Act
  /\ open /\ Closed
  /\ rules' = Deserialize(saved)
  /\ UNCHANGED <<remote, saved, linked, nodes, shown, disk, typed, parted>>

\* The rules are what they were; the nodes stay as they were edited, and the
\* controls follow.
configCancelled ==
  /\ Act
  /\ open /\ Closed
  /\ rules' = Deserialize(saved)
  /\ UNCHANGED <<remote, saved, linked, nodes, disk, typed, parted>>
  /\ layoutControlWidgets

\* updateSourceEvent of the properties: FetchProperty may fail.
updateSourceEvent ==
  /\ due' = TRUE
  /\ \/ data' = service /\ missed' = FALSE
     \/ data' = <<>> /\ missed' = TRUE

\* The plasmoid is loaded anew, with the engine.
Reload ==
  /\ updateSourceEvent
  /\ signals' = <<>> /\ jobs' = <<>>
  /\ rules' = <<>> /\ saved' = <<>>
  /\ Closed
  /\ linked' = FALSE
  /\ parted' = FALSE
  /\ UNCHANGED <<service, disk, typed>>
  /\ readConfig(<<>>)

Restart == Act /\ Reload
-----------------------------------------------------------------------------
(***************************************************************************)
(* The service, the engine, and updates.                                   *)
(***************************************************************************)
\* QueueManager::SetProperty, and the signal: what is announced is the text as it
\* was given.
Served(list) ==
  /\ service' = Deserialize(list)
  /\ signals' = Append(signals, PropertyUpdated(list))
  /\ missed' = FALSE

\* IDBus::Reconnect: what was announced on the connection that is given up is
\* lost.  The properties are not fetched anew; the status is told.
Reconnected(lost) ==
  /\ signals' = <<>>
  /\ due' = TRUE
  /\ missed' = (missed \/ lost \/ \E i \in DOMAIN signals : signals[i] # Other)

\* X10Job::start: an empty list is refused.
JobDone ==
  /\ IF Head(jobs) = <<>> THEN UNCHANGED <<service, signals, missed>> ELSE Served(Head(jobs))
  /\ UNCHANGED <<due, parted>>

\* CheckResult: the call fails, before the service or after it, and the engine
\* finds itself connected nevertheless, or connects again.
JobFailed ==
  /\ Head(jobs) # <<>>
  /\ parted' = TRUE
  /\ \/ UNCHANGED <<service, signals, missed, due>>
     \/ Reconnected(FALSE) /\ UNCHANGED service
     \/ Reconnected(TRUE) /\ service' = Deserialize(Head(jobs))

StartJob ==
  /\ jobs # <<>>
  /\ jobs' = Tail(jobs)
  /\ JobDone \/ JobFailed
  /\ UNCHANGED <<data, dialog, nodes, shown, disk, acts, typed>>

\* Any other call of the engine's fails.
CallFailed ==
  /\ Act
  /\ Reconnected(FALSE)
  /\ UNCHANGED <<service, data, jobs, dialog, nodes, shown, disk, typed, parted>>

OtherClient ==
  /\ Act
  /\ \/ \E list \in OtherRules : Served(list)
     \/ signals' = Append(signals, Other) /\ UNCHANGED <<service, missed>>
  /\ UNCHANGED <<data, due, jobs, dialog, nodes, shown, disk, typed, parted>>

onPropertyUpdated ==
  /\ signals # <<>>
  /\ data' = IF Head(signals) = Other THEN data ELSE Head(signals).list
  /\ signals' = Tail(signals)
  /\ due' = TRUE
  /\ UNCHANGED <<service, jobs, missed, dialog, nodes, shown, disk, acts, typed, parted>>

\* A faulty dataUpdated: the list is not told.
dataUpdatedUntold ==
  /\ due
  /\ due' = FALSE
  /\ rules' = Deserialize(data)
  /\ parted' = (open /\ data = rules /\ (parted \/ saved # rules))
  /\ UNCHANGED <<service, data, signals, jobs, missed, saved, open, linked, rows, row,
                 form, nodes, shown, disk, acts, typed>>

\* If the engine's rules differ from the widget's, they replace them, and the
\* list of the dialog with its edits; if they do not, m_rulesSaved is not touched.
\* The list of a dialog that was closed is written to nevertheless.
dataUpdated ==
  /\ due
  /\ due' = FALSE
  /\ rules' = IF data # rules THEN Deserialize(data) ELSE rules
  /\ IF data # rules /\ linked
     THEN IF open THEN rulesToCfg(rules') ELSE saved' = rules' /\ UNCHANGED <<rows, row, form>>
     ELSE UNCHANGED <<saved, rows, row, form>>
  /\ parted' = (open /\ data = rules /\ (parted \/ saved # rules))
  /\ UNCHANGED <<service, data, signals, jobs, missed, open, linked, nodes, shown, disk,
                 acts, typed>>

\* The handlers that loadRule(-1) calls look for m_rules[-1], if it changes the
\* time or the repeats.
Stray == row # NoRow /\ (form.time # 0 \/ form.repeats # Blank.repeats)

\* What is left of a deleted list may be anything, and what is in front of a list
\* of rules, too: plasma lives on, as in dataUpdated, or crashes and is started
\* again.  (When an act of the user's reads m_rules[-1], the crash is a Restart.)
Crash == due /\ data # rules /\ linked /\ (open => Stray) /\ Reload /\ UNCHANGED acts
-----------------------------------------------------------------------------
Init ==
  /\ service \in {Deserialize(list) : list \in OtherRules}
  /\ data = service /\ due = TRUE /\ missed = FALSE
  /\ signals = <<>> /\ jobs = <<>>
  /\ rules = <<>> /\ saved = <<>>
  /\ open = FALSE /\ linked = FALSE
  /\ rows = 0 /\ row = NoRow /\ form = EmptyForm
  /\ nodes = <<>> /\ shown = <<>> /\ disk = <<>>
  /\ acts = 0 /\ typed = FALSE /\ parted = FALSE

RulesPage == ruleCurrentItemChanged \/ EditRule \/ EditText \/ ruleButtonAdd \/ ruleButtonRem
NodesPage == nodeButtonAdd \/ nodeButtonRem \/ setData
Dialog    == createConfigurationInterface \/ settingsRestoreDefaults \/ okClicked \/ applyClicked
             \/ configCancelled

Next == RulesPage \/ NodesPage \/ Dialog \/ Restart \/ Crash
        \/ OtherClient \/ StartJob \/ CallFailed \/ onPropertyUpdated \/ dataUpdated

Spec == Init /\ [][Next]_vars
-----------------------------------------------------------------------------
(***************************************************************************)
(* Properties.                                                             *)
(***************************************************************************)
(* The types of the variables. *)
TypeOK ==
  /\ service \in Seq(Rules) /\ data \in Seq(Rules)
  /\ due \in BOOLEAN /\ missed \in BOOLEAN
  /\ signals \in Seq([about : {"rules", "other"}, list : Seq(Rules)])
  /\ jobs \in Seq(Seq(Rules))
  /\ rules \in Seq(Rules) /\ saved \in Seq(Rules)
  /\ open \in BOOLEAN /\ linked \in BOOLEAN
  /\ rows \in Nat /\ row \in NoRow .. rows - 1
  /\ form \in Forms
  /\ nodes \in Seq(NodeSet) /\ disk \in Seq(NodeSet)
  /\ shown \in Seq(Int \X Int)
  /\ acts \in 0 .. MaxActs
  /\ typed \in BOOLEAN /\ parted \in BOOLEAN

(* The list of the open dialog has a row for each rule and no other, however *)
(* updates from the service fall between the user's additions and removals. *)
RowsMatchRules == open => rows = Len(rules)

(* The form shows the rule of the current row, so that the saving that OK   *)
(* does once more changes no rule the user did not edit.  Not so for an     *)
(* address that is struck out, until the rule is saved; for the text of an  *)
(* action that is struck out, then neither; and after loading a rule that   *)
(* had seconds, which then has days and action of the row before although   *)
(* the form shows its own.                                                  *)
Shows(f, r) ==
  /\ f.enabled = r.enabled /\ f.time = Minute(r.time) /\ f.repeats = r.repeats
  /\ ~f.struck => f.who = r.who
  /\ ~f.half => f.days = r.days /\ f.kind = r.kind
  /\ ~f.half /\ ~f.crossed => f.text = r.text

FormShowsRule == open /\ row # NoRow => Shows(form, rules[row + 1])

(* The rules of the widget, which the next dialog will show and the next OK *)
(* will send, are those of the service once nothing is under way: after OK, *)
(* after Cancel, and whatever other clients set meanwhile.  Not so when     *)
(* Apply was used, or Defaults upon edited rules, when OK would delete the  *)
(* last rule (an empty list is not sent), when SetProperty starts no job,   *)
(* when the job's call fails, and when another client set just what the     *)
(* user had edited; then the next property update puts it right.  Nor when  *)
(* an announcement of rules, or the fetch of them, was lost; then the next  *)
(* announcement of rules does.  A rule with a bad address may be enabled    *)
(* here and never is in the service, and one whose text has a comma in it   *)
(* may be here and is not there.                                            *)
RulesAgree ==
  ~open /\ ~parted /\ ~missed /\ jobs = <<>> /\ signals = <<>> /\ ~due =>
    Deserialize(rules) = service

(* As long as the user types no address, no name with a '/' in it (which is *)
(* read back as another name and another address) and an address is left,   *)
(* no two nodes get the same: also after nodes were removed, or lost with   *)
(* the names they had when the plasmoid was loaded anew, and in whatever    *)
(* order they are then read.                                                *)
Apart(list) ==
  \A i, j \in DOMAIN list :
    list[i].channel = list[j].channel /\ list[i].unit = list[j].unit => i = j

NodesApart == ~typed => Apart(nodes)

(* With the dialog closed, the controls that send commands and show levels  *)
(* are those of the nodes, at the nodes' addresses: also when the edits of  *)
(* the nodes were not accepted, for nothing undoes them.                    *)
ControlsMatchNodes == ~open => shown = [i \in DOMAIN nodes |-> Address(nodes[i])]

(* What the changelog (0.6.3) says is repaired: updating rules in the       *)
(* widget uses the list of a dialog only while there is one.                *)
ListIsThere == [][dataUpdated /\ data # rules /\ linked => open]_vars
-----------------------------------------------------------------------------
(***************************************************************************)
(* What the steps rest on: the parts of the inductive invariants.          *)
(***************************************************************************)
(* A page that is there has the list connected; one that is gone has no     *)
(* current row, and the form of a current row holds a rule's fields.        *)
PageInv ==
  /\ open => linked
  /\ ~open => row = NoRow
  /\ row # NoRow => form.who \in Whos /\ form.time = Minute(form.time)

(* There is a control for each node; no two nodes shown, or written, have   *)
(* the same address, and none a name with a '/' in it, but for what the     *)
(* user typed.                                                              *)
ControlCount == Len(shown) = Len(nodes)
Plain(list) == Apart(list) /\ \A i \in DOMAIN list : list[i].name \notin CutNames
AllApart == ~typed => Plain(nodes) /\ Plain(disk)

FormInv == TypeOK /\ RowsMatchRules /\ PageInv /\ FormShowsRule /\ ControlCount /\ AllApart

(* Behind the last announcement of rules on its way, or behind the engine's *)
(* data if there is none and none was lost, the service has no others.      *)
LastAnnounced(i) == signals[i] # Other /\ \A j \in DOMAIN signals : i < j => signals[j] = Other

EngineInv ==
  /\ ~missed /\ (\A i \in DOMAIN signals : signals[i] = Other) => Deserialize(data) = service
  /\ \A i \in DOMAIN signals : LastAnnounced(i) => Deserialize(signals[i].list) = service
  /\ Deserialize(service) = service

(* The rules the widget goes back to are the engine's, but for what is under *)
(* way and has been told it; a job for an empty list says nothing.           *)
WidgetInv ==
  ~parted /\ ~due /\ signals = <<>> /\ (\A i \in DOMAIN jobs : jobs[i] = <<>>) =>
    Deserialize(IF open THEN saved ELSE rules) = Deserialize(data)

RulesInv == FormInv /\ EngineInv /\ WidgetInv
=============================================================================
