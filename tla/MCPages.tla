------------------------------- MODULE MCPages -------------------------------
(***************************************************************************)
(* The two pages of a session and the editor of one of them, checked one   *)
(* by one over the same server and socket: `page' says which.              *)
(***************************************************************************)
EXTENDS ClassicPage

CONSTANTS MaxFilesMade, SimpleEvents

VARIABLES
    page,
    connected, instance, requests, polls, setups, attaches, placed, opened, resizing, failed, stale,
    openFiles, currentFile, fileCounter, made

Simple == INSTANCE SimplePage WITH MaxEvents <- SimpleEvents
Files == INSTANCE Editor

classicVars == <<requestVars, listVars, terminalVars>>
simpleVars == <<connected, instance, requests, polls, setups, attaches, placed, opened, resizing, failed, stale>>
editorVars == <<openFiles, currentFile, fileCounter, made>>

(* The variables of the pages that are not explored keep one value.        *)
ClassicIdle ==
    /\ session = <<"failed">> /\ post = <<"none">> /\ deletion = <<"none">> /\ list = <<>>
    /\ idx = [name \in Names |-> 0] /\ selected = 0 /\ shows = {} /\ asks = 0 /\ ticking = {}
    /\ disabled = {} /\ typed = 0 /\ keys = <<>> /\ unflushed = FALSE /\ early = FALSE /\ late = {}

SimpleIdle ==
    /\ connected = FALSE /\ instance = 0 /\ requests = {} /\ polls = 0 /\ setups = {}
    /\ attaches = {} /\ placed = {} /\ opened = {} /\ resizing = FALSE
    /\ failed = FALSE /\ stale = FALSE

(* The classic page is explored with two instances, and then neither the   *)
(* connection is lost nor keys are typed, and with one and all of these.   *)
one == CHOOSE name \in Names : TRUE
Scenario ==
    \/ removed = {} /\ live # {one} /\ losses = MaxLosses /\ typed = MaxKeys
    \/ removed = {one} /\ losses = 0 /\ typed = 0

MCInit ==
    /\ Files!Init
    /\ \/ page = "classic" /\ Init /\ SimpleIdle /\ Scenario
       \/ page = "simple" /\ Simple!Init /\ ClassicIdle /\ live \subseteq {one} /\ removed = {} /\ losses = 0
       \/ page = "editor" /\ PageInit({}) /\ removed = {} /\ losses = 0 /\ socket = "absent"
          /\ ClassicIdle /\ SimpleIdle

OnlyClassic == UNCHANGED <<page, simpleVars, editorVars>>
OnlySimple == UNCHANGED <<page, classicVars, editorVars>>
OnlyEditor == UNCHANGED <<page, pageVars, classicVars, simpleVars>>

MCNext ==
    \/ page = "classic" /\ OnlyClassic /\ Next
    \/ page = "simple" /\ OnlySimple /\ Simple!Next
    \/ page = "editor" /\ OnlyEditor /\ Files!Next

allVars == <<page, pageVars, classicVars, simpleVars, editorVars>>

(* Timers that are set fire, events that were sent arrive, requests are    *)
(* answered and a lost connection is made again every second.              *)
Step(A) == page = "simple" /\ OnlySimple /\ A
ClassicStep(A) == page = "classic" /\ OnlyClassic /\ A
MCFairness ==
    /\ WF_allVars(Step(Simple!Open)) /\ WF_allVars(Step(Simple!Join)) /\ WF_allVars(Step(Simple!Handlers)) /\ WF_allVars(Step(Simple!Poll))
    /\ WF_allVars(Step(\E r \in requests : Simple!Answer(r) \/ Simple!GotSession(r)))
    /\ WF_allVars(Step(\E o \in DOMAIN objects : Simple!Setup(o) \/ Simple!Attach(o)))
    /\ WF_allVars(ClassicStep(Join)) /\ WF_allVars(ClassicStep(Handlers)) /\ WF_allVars(ClassicStep(SendGeometry))
    /\ WF_allVars(ClassicStep(\E o \in DOMAIN objects : Tick(o)))

MCSpec == MCInit /\ [][MCNext]_allVars /\ MCFairness

-----------------------------------------------------------------------------
(* Both pages: output is kept, once and in order but for what overtakes    *)
(* the buffer; on the simplified page none waits behind an open terminal,  *)
(* on the classic page it is written in the end, but for named cases, and  *)
(* keys are sent once, in order and in the end.                            *)
TextArrives == [](OutputKept /\ Simple!NothingWaits /\ KeysInOrder) /\ BufferIsFlushed /\ KeysAreSent
(* Both pages: what is shown agrees with itself and with the session, but  *)
(* for a request answered early and for old news.                          *)
InstancesAreCurrent == ListMatchesIndex /\ Simple!GhostsAreStale
(* SimplePage: the session's instance is shown in the end.                 *)
ShowsInstance == page = "simple" => Simple!ShowsInstance
(* Editor: the open files are kept apart.                                  *)
FilesAreApart == Files!FilesAreApart
=============================================================================
