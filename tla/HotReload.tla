----------------------------- MODULE HotReload -----------------------------
(***************************************************************************)
(* The watcher of the configuration file (internal/config/hotreload.go)    *)
(* from the start of the process to its end (cmd/apifrontend/main.go),     *)
(* while others replace the file.  A content is a record: whether it can   *)
(* be read, is larger than maxConfigSize, is YAML, and the fields it sets. *)
(* Their names stand for the SHA-256 hashes that the code compares.        *)
(***************************************************************************)
EXTENDS Config

CONSTANTS
  Files,     \* names of the contents that the file may have
  Content    \* Content[f]: [readable, large, parses, text]

None == "none"

ASSUME HotAssumption == None \notin Files

VARIABLES
  file,     \* what is in the file
  main,     \* where run() is
  last,     \* lastContent and lastHash of the watcher
  judged,   \* the content that its callback was called with last
  audit,    \* the last audit event of the watcher
  ctx,      \* the context of run() is cancelled
  loop,     \* watchLoop: "off", "run" or "done"
  event,    \* events for the file wait in the channel of fsnotify
  timer,    \* the debounce timer runs or has fired
  missed    \* the file was replaced and no event told the loop, or it could not be read
            \* when the loop was told

hotVars == <<file, main, last, judged, audit, ctx, loop, event, timer, missed>>

NoEvent == [type |-> "none", content |-> None]

Running == main \notin {"exited", "refused"}

HotInit ==
  /\ file \in Files
  /\ main = "starting"
  /\ last = None /\ judged = None
  /\ audit = NoEvent
  /\ ctx = FALSE
  /\ loop = "off"
  /\ event = FALSE /\ timer = FALSE /\ missed = FALSE

-----------------------------------------------------------------------------
\* loadConfig, ResolveDefaults and Validate: what run() does with a content.
Starts(f) == Content[f].readable /\ Content[f].parses /\ Validate(Load(Content[f].text))

readFileLimited(f) == Content[f].readable /\ ~Content[f].large

\* MUTANT of callback: the text is not validated.
callbackParsing(f) == Content[f].parses

\* The function that run() gives to the watcher: the text is decoded into an empty
\* Config.
callback(f) == Content[f].parses /\ Validate(Decode(Content[f].text, ZeroConfig))

Startable == {f \in Files : Starts(f)}
Accepted == {f \in Files : callback(f)}

\* Reading the file may fail at any time, whatever is in it (~read).
loadConfig ==
  /\ main = "starting"
  /\ \E read \in BOOLEAN : main' = IF read /\ file \in Startable THEN "loaded" ELSE "refused"
  /\ UNCHANGED <<file, last, judged, audit, ctx, loop, event, timer, missed>>

\* Later in run(), the watcher is started.
loadInitial ==
  /\ main = "loaded"
  /\ \/ /\ readFileLimited(file)
        /\ judged' = file
        /\ IF file \in Accepted THEN main' = "adding" /\ last' = file
           ELSE main' = "unwatched" /\ UNCHANGED last
     \/ main' = "unwatched" /\ UNCHANGED <<last, judged>>
  /\ UNCHANGED <<file, audit, ctx, loop, event, timer, missed>>

\* fsnotify.NewWatcher and Add, and the goroutine of watchLoop.
AddWatch ==
  /\ main = "adding"
  /\ main' = "watching" /\ loop' = "run"
  /\ UNCHANGED <<file, last, judged, audit, ctx, event, timer, missed>>

AddFails ==
  /\ main = "adding"
  /\ main' = "unwatched"
  /\ UNCHANGED <<file, last, judged, audit, ctx, loop, event, timer, missed>>

-----------------------------------------------------------------------------
(* watchLoop.  Its select takes any of the cases that are ready.            *)

\* MUTANT of ReceiveEvent: an event while the timer runs is swallowed, and the
\* timer stopped.
ReceiveStopping ==
  /\ loop = "run" /\ event
  /\ event' = FALSE /\ timer' = ~timer
  /\ UNCHANGED <<file, main, last, judged, audit, ctx, loop, missed>>

\* The timer is started, or started again.
ReceiveEvent ==
  /\ loop = "run" /\ event
  /\ event' = FALSE /\ timer' = TRUE
  /\ UNCHANGED <<file, main, last, judged, audit, ctx, loop, missed>>

handleFileChange(read) ==
  IF ~read \/ ~readFileLimited(file) \/ file = last
  THEN UNCHANGED <<last, judged, audit>>
  ELSE /\ judged' = file
       /\ IF file \in Accepted
          THEN audit' = [type |-> "reloaded", content |-> file] /\ last' = file
          ELSE audit' = [type |-> "rejected", content |-> file] /\ UNCHANGED last

\* MUTANT of Debounce: content that is not accepted is tried again, in silence.
DebounceRetrying ==
  /\ loop = "run" /\ timer
  /\ timer' = (file \notin Accepted) /\ missed' = FALSE
  /\ handleFileChange(~timer')
  /\ UNCHANGED <<file, main, ctx, loop, event>>

\* A file that cannot be read now is not read again before the next event.
Debounce ==
  /\ loop = "run" /\ timer
  /\ timer' = FALSE
  /\ \E read \in BOOLEAN : handleFileChange(read) /\ missed' = ~read
  /\ UNCHANGED <<file, main, ctx, loop, event>>

LoopExit ==
  /\ loop = "run" /\ (ctx \/ main = "stopping")
  /\ loop' = "done" /\ timer' = FALSE
  /\ UNCHANGED <<file, main, last, judged, audit, ctx, event, missed>>

\* The queue of fsnotify overflows; the error is logged.
Overflow ==
  /\ loop = "run" /\ event
  /\ event' = FALSE /\ missed' = TRUE
  /\ UNCHANGED <<file, main, last, judged, audit, ctx, loop, timer>>

-----------------------------------------------------------------------------
(* The end of the process, and those who write the file.                    *)

Signal ==
  /\ ~ctx /\ Running
  /\ ctx' = TRUE
  /\ UNCHANGED <<file, main, last, judged, audit, loop, event, timer, missed>>

\* run() returns, after a signal or with an error, and calls Stop on its way out.
Return ==
  /\ main \in {"watching", "unwatched"}
  /\ main' = IF main = "watching" THEN "stopping" ELSE "exited"
  /\ UNCHANGED <<file, last, judged, audit, ctx, loop, event, timer, missed>>

\* Stop waits for the loop.
Stop ==
  /\ main = "stopping" /\ loop = "done"
  /\ main' = "exited"
  /\ UNCHANGED <<file, last, judged, audit, ctx, loop, event, timer, missed>>

\* The file is replaced; the directory is watched from AddWatch on.
Write(f) ==
  /\ Running /\ f # file
  /\ file' = f
  /\ event' = (event \/ loop = "run")
  /\ missed' = (missed \/ main = "adding")
  /\ UNCHANGED <<main, last, judged, audit, ctx, loop, timer>>

\* The kubelet starts the container again.
Restart ==
  /\ ~Running
  /\ main' = "starting"
  /\ last' = None /\ judged' = None
  /\ audit' = NoEvent
  /\ ctx' = FALSE
  /\ loop' = "off"
  /\ event' = FALSE /\ timer' = FALSE /\ missed' = FALSE
  /\ UNCHANGED file

HotNext ==
  \/ loadConfig \/ loadInitial \/ AddWatch \/ AddFails
  \/ ReceiveEvent \/ Debounce \/ LoopExit \/ Overflow
  \/ Signal \/ Return \/ Stop \/ Restart
  \/ \E f \in Files : Write(f)

\* The loop serves its channels and leaves when told to, and Stop goes on once it
\* has.  The timer fires at some time: events do not keep coming forever with less
\* than debounceDuration between them.
HotSpec ==
  /\ HotInit /\ [][HotNext]_hotVars
  /\ WF_hotVars(ReceiveEvent) /\ WF_hotVars(Debounce)
  /\ WF_hotVars(LoopExit) /\ WF_hotVars(Stop)

-----------------------------------------------------------------------------
Watching == main = "watching" /\ loop = "run"

\* The watcher has told what it makes of content f, which is in the file: f is
\* current, or reported as rejected.
Told(f) ==
  \/ ~readFileLimited(f)
  \/ last = f /\ f \in Accepted
  \/ f \notin Accepted /\ audit = [type |-> "rejected", content |-> f]

\* Types; a watcher that has been started has its loop.
HotTypeOK ==
  /\ file \in Files /\ {last, judged, audit.content} \subseteq Files \cup {None}
  /\ main \in {"starting", "loaded", "adding", "watching", "unwatched", "stopping", "exited", "refused"}
  /\ loop \in {"off", "run", "done"}
  /\ main = "watching" => loop # "off"
  /\ audit.type \in {"none", "reloaded", "rejected"}

\* When no event is on its way, none was lost and the last read did not fail, the
\* watcher has told what it makes of the file as it is, whatever was written and
\* read in between.
RestIsTold == Watching /\ ~event /\ ~timer /\ ~missed => Told(file)

\* A content that stays in the file is told about in the end, unless its event is
\* lost, the file cannot be read when the event comes, or the process ends.
ChangeIsTold ==
  \A f \in Files :
    Watching /\ file = f ~> Told(f) \/ file # f \/ missed \/ ~Watching

\* A text that sets one of the timeouts of a dependency sets both.
TimeoutsPaired(text) ==
  \A d \in Dependencies :
    <<d, "connectTimeout">> \in DOMAIN text <=> <<d, "requestTimeout">> \in DOMAIN text

\* A process can be started again from the content that the watcher holds for
\* current, when that does not mix its own timeouts with default ones.
CurrentStarts == last # None /\ TimeoutsPaired(Content[last].text) => last \in Startable

\* A content means the same to the watcher as to the start of the process: fields
\* that it omits have their defaults.
SameVerdict == judged # None => (judged \in Accepted <=> judged \in Startable)
=============================================================================
