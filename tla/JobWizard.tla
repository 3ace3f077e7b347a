----------------------------- MODULE JobWizard ------------------------------
(***************************************************************************)
(* The New Job page of the Control UI (control/ui/job-wizard.js with       *)
(* workers.js, ui-events.js, navigation.js and main.js): a draft that the  *)
(* operator edits, the answers that come back for earlier drafts, the      *)
(* refresh of the workers every three seconds, and the jobs it creates.    *)
(*                                                                         *)
(* Handlers run to their next await.  A draft is what ends up in a job     *)
(* request: the input, the worker of the single-server mode, the manifest  *)
(* root and the key of the request.  Requests that ask the same are one.   *)
(***************************************************************************)
EXTENDS Integers, FiniteSets

CONSTANTS Inputs, Workers,
          RootOf,    \* RootOf[i]: the root the workers' paths give for input i
          MaxClicks, \* bound: what the operator does
          MaxFaults  \* bound: requests that fail

VARIABLE page

-----------------------------------------------------------------------------
Empty == ""
Typed == "typed"    \* a root the operator typed

Drafts == [input : Inputs \cup {Empty}, worker : Workers \cup {Empty},
           root : {Empty, Typed} \cup {RootOf[i] : i \in Inputs}, key : BOOLEAN]

PageInit ==
  page \in [draft : {[input |-> Empty, worker |-> w, root |-> Empty, key |-> FALSE] : w \in Workers},
            auto : {Empty},      \* state.lastAutoManifestRoot
            banner : {"none"},   \* preflight
            enabled : {FALSE},   \* the Create button
            known : {Empty},     \* the input of state.latestEligibility
            timer : {FALSE},     \* state.preflightTimer
            calls : {{}},        \* requests under way
            passed : {{}},       \* history: drafts that passed a preflight
            created : {{}},      \* drafts of the jobs created
            clicks : {0}, faults : {0}]

Becomes(p) == page' = p

Clicks(p) == page.clicks < MaxClicks /\ Becomes([p EXCEPT !.clicks = @ + 1])

\* invalidatePreflight
Invalidated(p) == [p EXCEPT !.banner = "none", !.enabled = FALSE]

Call(kind, draft) == [kind |-> kind, draft |-> draft]
Sends(p, call) == [p EXCEPT !.calls = @ \cup {call}]
Done(c) == [page EXCEPT !.calls = @ \ {c}]

-----------------------------------------------------------------------------
(* The draft.                                                              *)

\* An edit of the operator; those of the input and of the worker also schedule
\* the look at the paths.
EditInput ==
  \E i \in (Inputs \cup {Empty}) \ {page.draft.input} :
    Clicks(Invalidated([page EXCEPT !.draft.input = i, !.timer = TRUE]))

EditWorker ==
  \E w \in Workers \ {page.draft.worker} :
    Clicks(Invalidated([page EXCEPT !.draft.worker = w, !.timer = TRUE]))

EditRoot ==
  \E root \in {Empty, Typed} \ {page.draft.root} :
    Clicks(Invalidated([page EXCEPT !.draft.root = root]))

EditKey == ~ page.draft.key /\ Clicks(Invalidated([page EXCEPT !.draft.key = TRUE]))

\* clearSecret, when the operator goes to another page
ClearSecret(p) == Invalidated([p EXCEPT !.draft.key = FALSE])
Leave == Clicks(ClearSecret(page))

-----------------------------------------------------------------------------
(* What the paths of the workers give.                                     *)

\* updatePreflight
TimerFires ==
  /\ page.timer
  /\ LET fired == [page EXCEPT !.timer = FALSE]
     IN  Becomes(
           IF page.draft.input # Empty THEN Sends(fired, Call("paths", page.draft))
           ELSE IF page.draft.root = page.auto
             THEN [fired EXCEPT !.known = Empty, !.draft.root = Empty, !.auto = Empty]
             ELSE [fired EXCEPT !.known = Empty])

\* applyDefaultManifestRoot: nobody is told that the draft changed.
WithRoot(p, root) ==
  LET own == p.draft.root \in {Empty, p.auto}
  IN  IF root = Empty THEN [p EXCEPT !.auto = Empty, !.draft.root = IF own THEN Empty ELSE @]
      ELSE IF own THEN [p EXCEPT !.auto = root, !.draft.root = root] ELSE p

PathsAnswered(c) ==
  /\ c.kind = "paths"
  /\ Becomes(WithRoot([Done(c) EXCEPT !.known = c.draft.input], RootOf[c.draft.input]))

\* A bug to test with: the refresh leaves the paths alone
Unscheduled(p) == p

Scheduled(p) == [p EXCEPT !.timer = TRUE]

\* loadServers, when the list comes: a worker that is gone is replaced by the
\* first of the list.
ServersListed ==
  \E listed \in SUBSET Workers :
    LET first == IF listed = {} THEN Empty ELSE CHOOSE w \in listed : TRUE
    IN  Becomes(Scheduled([page EXCEPT !.draft.worker = IF @ \in listed THEN @ ELSE first]))

-----------------------------------------------------------------------------
(* Preflight and creation.                                                 *)

ClickPreflight ==
  page.draft.worker # Empty /\ Clicks(Sends(page, Call("preflight", page.draft)))

\* createJob asks for a preflight of its own; the button stays enabled.
ClickCreate ==
  /\ page.enabled /\ page.draft.worker # Empty
  /\ Clicks(Sends(page, Call("preflight_create", page.draft)))

\* setPreflight: the banner is that of the draft that was asked about.
Told(p, c, ok) ==
  [p EXCEPT !.banner = IF ok THEN "passed" ELSE "blocked", !.enabled = ok,
            !.passed = IF ok THEN @ \cup {c.draft} ELSE @]

PreflightAnswered(c) ==
  /\ c.kind = "preflight"
  /\ \E ok \in BOOLEAN : Becomes(Told(Done(c), c, ok))

\* A bug to test with: the request is built again when the answer is there
FromForm(c) == page.draft

\* The request that passed is the request that is sent.
FromPreflight(c) == c.draft

\* ... and for the message to the operator the paths are looked at once more
\* when they are not known.
CreateGoesOn(c) ==
  /\ c.kind = "preflight_create"
  /\ \/ Becomes(Told(Done(c), c, FALSE))
     \/ Becomes(Sends(Told(Done(c), c, TRUE),
                      Call(IF page.known = Empty /\ c.draft.input # Empty THEN "message" ELSE "create",
                           FromPreflight(c))))

PathsForMessage(c) ==
  c.kind = "message" /\ Becomes(Sends(Done(c), Call("create", c.draft)))

Created(c) ==
  /\ c.kind = "create"
  /\ Becomes(ClearSecret([Done(c) EXCEPT !.created = @ \cup {c.draft}]))

\* A message, and the end of the handler.
CallFails(c) ==
  page.faults < MaxFaults /\ Becomes([Done(c) EXCEPT !.faults = @ + 1])

-----------------------------------------------------------------------------
Answered(c) ==
  PathsAnswered(c) \/ PreflightAnswered(c) \/ CreateGoesOn(c) \/ PathsForMessage(c) \/ Created(c)

Operator ==
  EditInput \/ EditWorker \/ EditRoot \/ EditKey \/ Leave \/ ClickPreflight \/ ClickCreate
Browser == TimerFires \/ ServersListed \/ \E c \in page.calls : Answered(c)
PageNext == Operator \/ Browser \/ \E c \in page.calls : CallFails(c)

-----------------------------------------------------------------------------
(* Properties of the page.                                                 *)

\* Every job was created from exactly what a preflight had passed, whatever the
\* operator, the refresh or late answers made of the form, of the banner and of
\* the button in the meantime.
CreatedWasChecked == page.created \subseteq page.passed

\* The root that the page fills in is that of the input in the form.
RootIsOfInput ==
  page.draft.root \in {Empty, page.auto} =>
    page.draft.root = IF page.draft.input = Empty THEN Empty ELSE RootOf[page.draft.input]

=============================================================================
