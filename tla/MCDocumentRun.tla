--------------------------- MODULE MCDocumentRun ----------------------------
(***************************************************************************)
(* Small instances for TLC of a parser that reads a document (topic "run", *)
(* DocumentRun), of its pause on a host that runs short ("control",        *)
(* ExecutionControl), of the text it puts together ("text", PageText) and  *)
(* of the images it saves ("images", PageImages).                          *)
(***************************************************************************)
EXTENDS DocumentRun, TLC

Upto(n, S) == UNION {[1 .. k -> S] : k \in 0 .. n}

VARIABLES topic, subject

-----------------------------------------------------------------------------
(* Documents: the scenarios the configurations name.                       *)

Scenario(manifest, starts, signals, crashes, errors, edits, duringRuns) ==
  [manifest |-> manifest, starts |-> starts, signals |-> signals, crashes |-> crashes,
   errors |-> errors, edits |-> edits, duringRuns |-> duringRuns]

\* A record of a shard parsed again and again, a local run that is signalled
\* while the input is replaced under it, and two local runs.
Regular == {Scenario(TRUE, 4, 0, 2, 2, 2, FALSE),
            Scenario(FALSE, 1, 1, 0, 1, 1, TRUE),
            Scenario(FALSE, 2, 0, 0, 1, 0, FALSE)}

Shutdown == {Scenario(TRUE, 2, 1, 0, 0, 0, FALSE)}
Edited == {Scenario(TRUE, 2, 0, 0, 0, 1, TRUE)}
Legacy == {Scenario(FALSE, 2, 0, 1, 0, 0, FALSE)}
Two == {Scenario(TRUE, 3, 0, 2, 0, 0, FALSE)}

-----------------------------------------------------------------------------
(* The pause: a host with room, and one that has little memory left.       *)

Host(available) ==
  [memory |-> [total |-> 10, available |-> available],
   disks |-> (<<>> :> [total |-> 10, free |-> 9])]
Guard == [memoryPercent |-> 90, minMemory |-> 2, diskPercent |-> 95, minDisk |-> 2]

Control == INSTANCE ExecutionControl WITH
  control <- subject, HostStates <- {Host(8), Host(1)}, Paths <- << <<"work">> >>,
  Limits <- Guard, Baseline <- 2, MaxTurns <- 2, MaxFaults <- 1

-----------------------------------------------------------------------------
(* Texts: one page of many blocks, and three pages of two.                 *)

Text == INSTANCE PageText

Shape(category, kinds) == [category |-> category, kinds |-> kinds]
Filled(shapes) ==
  [p \in DOMAIN shapes |-> [k \in DOMAIN shapes[p] |->
     [category |-> shapes[p][k].category, gone |-> FALSE,
      text |-> [i \in DOMAIN shapes[p][k].kinds |->
                  LET kind == shapes[p][k].kinds[i]
                  IN IF kind = "hyphen" THEN Text!Hyphen ELSE [at |-> <<p, k, i>>, as |-> kind]]]]]

Block(kind) == Shape("Text", <<kind>>)
Blocks == {Block(kind) : kind \in {"letter", "stop", "mark", "bullet", "digit", "dots", "han", "keyword"}}
            \cup {Shape("Text", <<"letter", "hyphen">>), Shape("Text", <<>>)}
Footer == Shape("Page-footer", <<"digit">>)
Heading == Shape("Section-header", <<"letter">>)
Sheets == Upto(2, {Block("letter"), Block("keyword"), Footer, Heading})
            \cup Upto(1, {Block("stop"), Shape("Text", <<"letter", "hyphen">>), Shape("Table", <<"digit">>)})

Settings == {[trim |-> FALSE, keywords |-> FALSE, header |-> TRUE, footer |-> TRUE, footnote |-> TRUE],
            [trim |-> TRUE, keywords |-> TRUE, header |-> FALSE, footer |-> FALSE, footnote |-> FALSE]}
OnePage == {<<page>> : page \in Upto(3, Blocks \cup {Footer, Shape("Title", <<"anchor">>)})}
Texts == [pages : {Filled(shapes) : shapes \in OnePage \cup Upto(3, Sheets)}, options : Settings]

-----------------------------------------------------------------------------
(* Images: the pages of a document share a logo, or nearly.                *)

Shows(main, read) == [main |-> main, read |-> read]
TwoPages == << Shows({"a"}, {"a", "b"}), Shows({"c", "d"}, {"c", "d"}) >>
Alike == { {{"a", "b"}, {"b", "c"}}, {{"a", "b"}, {"a", "c"}, {"b", "c"}, {"c", "d"}},
           {{"a", "c"}, {"c", "d"}, {"b", "d"}}, {} }
Orders == {<<"a", "b", "c", "d">>, <<"b", "a", "d", "c">>, <<"c", "d", "b", "a">>}

Images == INSTANCE PageImages WITH
  output <- subject, Window <- 8, Threshold <- 3,
  Documents <- [pages : {TwoPages}, near : Alike, order : Orders, old : {{}, {"z"}}],
  Options <- [origin : BOOLEAN, filter : BOOLEAN]

-----------------------------------------------------------------------------
ParserInit ==
  /\ DocumentInit
  /\ \/ topic = "run" /\ subject = "documents"
     \/ /\ left = CHOOSE l \in Scenarios : TRUE
        /\ \/ topic = "control" /\ Control!ControlInit
           \/ topic = "text" /\ subject \in Texts
           \/ topic = "images" /\ Images!OutputInit

Controls(Step) == topic = "control" /\ Step /\ UNCHANGED <<topic, documentVars>>

ParserNext ==
  \/ topic = "run" /\ DocumentNext /\ UNCHANGED <<topic, subject>>
  \/ Controls(Control!ControlNext)
  \/ topic = "images" /\ Images!OutputNext /\ UNCHANGED <<topic, documentVars>>

\* A process that is not killed goes on; the watcher of the agent, its reader of
\* events, the replay lane and the loops of the child go on.
ParserFairness ==
  /\ \A x \in Parsers : WF_documentVars(topic = "run" /\ RunStep(x))
  /\ WF_subject(Controls(Control!Claim))
  /\ WF_subject(Controls(Control!Watch))
  /\ WF_subject(Controls(Control!ReadEvents))
  /\ WF_subject(Controls(Control!ReplayLane))
  /\ WF_subject(Controls(Control!ReadControl))
  /\ WF_subject(Controls(Control!Page))

ParserSpec ==
  ParserInit /\ [][ParserNext]_<<documentVars, topic, subject>> /\ ParserFairness

\* TextIsKept of PageText and LinksHold of PageImages.
ContentKept ==
  /\ topic = "text" => Text!TextIsKept(subject)
  /\ topic = "images" => Images!LinksHold

\* RunsEnd of DocumentRun; and a host that runs short pauses its parser, one that
\* does not resumes it, and what runs is shown as it runs (PauseIsOfHost and
\* ShownIsApplied of ExecutionControl).
ParserSettles ==
  /\ RunsEnd
  /\ <>[](topic = "control" => Control!PauseIsOfHost /\ Control!ShownIsApplied)
=============================================================================
