----------------------------- MODULE FileLogger -----------------------------
(***************************************************************************)
(* Base::Logger::FileLogger: threads push lines to a queue behind _mutex;  *)
(* one thread of the logger pops a line at a time and shows it on the      *)
(* console, in a file, or in both, with _mutex held all along.             *)
(* Every line opens a file of its own: getFileName() appends the date to   *)
(* the name it built the last time.  After each open, fileSync() deletes   *)
(* the oldest files of the folder until LifeTime of them are left; a later *)
(* run of the program finds the files of an earlier one.                   *)
(*                                                                         *)
(* A name is a sequence of numbers that sorts as the path does: the name   *)
(* given to init(), then one date per getFileName().  Of the clock, the    *)
(* second is kept (what to_time_t rounds to) and the day it is in.         *)
(***************************************************************************)
EXTENDS Naturals, SequencesExt

CONSTANTS BaseNames,  \* names init() is given: 0 is "Log-"
          Outputs,    \* outputs init() is given
          Platforms,  \* "windows": a backslash separates directories; "posix"
          LifeTime,   \* lifeTime
          Longest,    \* dates a file name has room for
          DayLength,  \* seconds of a day
          MaxLog,     \* bound: lines a run of the program logs
          MaxRuns,    \* bound: runs of the program
          MaxNow      \* bound: the clock stops there

ASSUME LoggerAssumption ==
    /\ BaseNames \subseteq Nat /\ 0 \in BaseNames
    /\ Outputs \subseteq {"CONSOLE", "FILE", "EVERYWHERE"}
    /\ Platforms \subseteq {"windows", "posix"}
    /\ {LifeTime, DayLength} \subseteq Nat \ {0}
    /\ {Longest, MaxLog, MaxRuns, MaxNow} \subseteq Nat

VARIABLES process,    \* the program: "up", "joining" in ~FileLogger, "ended"
          fileName,   \* _fileName
          output,     \* _output
          msgQueue,   \* _msgQueue
          stop,       \* _stop
          logger,     \* _loggerThread: "test" of the predicate, "blocked", "writing", "left"
          inHand,     \* the line the logger has popped
          platform,   \* where the program runs
          files,      \* the log files: name -> [time of last write, lines]
          now,        \* the clock, in seconds
          pushed,     \* history: lines pushed in this run; a line is its number in that order
          shown,      \* history: lines shown in this run, [line, at]
          run,        \* which run of the program this is
          inherited   \* history: last write to a file that an earlier run left

program == <<process, fileName, output, stop>>
machine == <<platform, files, now>>
runs == <<run, inherited>>
vars == <<program, msgQueue, logger, inHand, machine, pushed, shown, runs>>

NoLine == 0
NoFiles == [n \in {} |-> [time |-> 0, lines |-> {}]]

\* The static of getInstance(): the members' initializers, and the thread.
Init == /\ process = "up" /\ fileName = <<0>> /\ output = "EVERYWHERE"
        /\ msgQueue = <<>> /\ stop = FALSE
        /\ logger = "test" /\ inHand = NoLine
        /\ pushed = 0 /\ shown = <<>>
        /\ platform \in Platforms /\ files = NoFiles /\ now = 1
        /\ run = 1 /\ inherited = 0

------------------------------------------------------------------------------
(* The threads of the program.                                             *)

Running == process # "ended"
MutexIsFree == logger # "writing"

\* notify_one: the logger is the only one that waits.
NotifyOne_Nobody == UNCHANGED logger
NotifyOne == logger' = IF logger = "blocked" THEN "test" ELSE logger

\* init() takes no lock: it is called before the first log().
InitLogger(name, out) ==
    /\ process = "up" /\ pushed = 0
    /\ fileName' = <<name>> /\ output' = out
    /\ UNCHANGED <<process, stop, msgQueue, logger, inHand, machine, pushed, shown, runs>>

\* log(), by any thread: the line is formatted before the lock is taken, and
\* its layout is left out.
Log_Silent ==
    /\ Running /\ MutexIsFree /\ pushed < MaxLog
    /\ msgQueue' = Append(msgQueue, pushed + 1) /\ pushed' = pushed + 1
    /\ NotifyOne_Nobody
    /\ UNCHANGED <<program, inHand, machine, shown, runs>>
Log ==
    /\ Running /\ MutexIsFree /\ pushed < MaxLog
    /\ msgQueue' = Append(msgQueue, pushed + 1) /\ pushed' = pushed + 1
    /\ NotifyOne
    /\ UNCHANGED <<program, inHand, machine, shown, runs>>

\* stop(), which is public.
StopFlag_Silent == MutexIsFree /\ stop' = TRUE /\ NotifyOne_Nobody
StopFlag == MutexIsFree /\ stop' = TRUE /\ NotifyOne
Stop ==
    /\ process = "up" /\ StopFlag
    /\ UNCHANGED <<process, fileName, output, msgQueue, inHand, machine, pushed, shown, runs>>

\* ~FileLogger: stop(), then join().
Destroy ==
    /\ process = "up" /\ StopFlag
    /\ process' = "joining"
    /\ UNCHANGED <<fileName, output, msgQueue, inHand, machine, pushed, shown, runs>>
Joined ==
    /\ process = "joining" /\ logger = "left"
    /\ process' = "ended"
    /\ UNCHANGED <<fileName, output, stop, msgQueue, logger, inHand, machine, pushed, shown, runs>>

------------------------------------------------------------------------------
(* The folder.                                                             *)

Date == now \div DayLength

\* getFileName keeps what it returns.
FileName == Append(fileName, Date)

Before(a, b) ==
    \/ IsStrictPrefix(a, b)
    \/ \E i \in DOMAIN a \cap DOMAIN b :
           a[i] < b[i] /\ SubSeq(a, 1, i - 1) = SubSeq(b, 1, i - 1)
\* The order of the pairs (time of last write, path).
Older(fs, a, b) ==
    fs[a].time < fs[b].time \/ (fs[a].time = fs[b].time /\ Before(a, b))

\* fileSync sorts the newest first and deletes from the back.
Kept_Oldest(fs) ==
    {n \in DOMAIN fs : Cardinality({m \in DOMAIN fs : Older(fs, m, n)}) < LifeTime}
Kept(fs) ==
    {n \in DOMAIN fs : Cardinality({m \in DOMAIN fs : Older(fs, n, m)}) < LifeTime}

\* Where a backslash does not separate, the files lie beside the folder.
Synced(fs) == IF platform = "windows" THEN Restrict(fs, Kept(fs)) ELSE fs

\* A name that is too long is not opened; app creates a file that is not there
\* and leaves the time of one that is.
CanOpen(name) == Len(name) - 1 <= Longest
WithOpened(name) ==
    [n \in DOMAIN files \cup {name} |->
        IF n \in DOMAIN files THEN files[n] ELSE [time |-> now, lines |-> {}]]

------------------------------------------------------------------------------
(* run().                                                                  *)

\* The predicate of wait() is tested with the mutex held.
Block ==
    /\ Running /\ logger = "test" /\ ~stop /\ msgQueue = <<>>
    /\ logger' = "blocked"
    /\ UNCHANGED <<program, msgQueue, inHand, machine, pushed, shown, runs>>
SpuriousWakeup ==
    /\ Running /\ logger = "blocked"
    /\ logger' = "test"
    /\ UNCHANGED <<program, msgQueue, inHand, machine, pushed, shown, runs>>

\* _stop is looked at first: what is queued is not shown any more.
Leave ==
    /\ Running /\ logger = "test" /\ stop
    /\ logger' = "left"
    /\ UNCHANGED <<program, msgQueue, inHand, machine, pushed, shown, runs>>

Pop_Back ==
    /\ Running /\ logger = "test" /\ ~stop /\ msgQueue # <<>>
    /\ inHand' = Last(msgQueue) /\ msgQueue' = Front(msgQueue)
    /\ logger' = "writing"
    /\ UNCHANGED <<program, machine, pushed, shown, runs>>
Pop ==
    /\ Running /\ logger = "test" /\ ~stop /\ msgQueue # <<>>
    /\ inHand' = Head(msgQueue) /\ msgQueue' = Tail(msgQueue)
    /\ logger' = "writing"
    /\ UNCHANGED <<program, machine, pushed, shown, runs>>

Show == /\ shown' = Append(shown, [line |-> inHand, at |-> now])
        /\ inHand' = NoLine /\ logger' = "test"

ToConsole ==
    /\ Running /\ logger = "writing" /\ output = "CONSOLE"
    /\ Show
    /\ UNCHANGED <<program, msgQueue, machine, pushed, runs>>

\* open(), the line, close().
ToFile ==
    /\ Running /\ logger = "writing" /\ output # "CONSOLE"
    /\ fileName' = FileName
    /\ CanOpen(fileName') /\ fileName' \in DOMAIN Synced(WithOpened(fileName'))
    /\ files' = [Synced(WithOpened(fileName')) EXCEPT ![fileName'] =
                     [time |-> now, lines |-> @.lines \cup {[run |-> run, line |-> inHand]}]]
    /\ Show
    /\ UNCHANGED <<process, output, stop, msgQueue, platform, now, pushed, runs>>

\* open() throws, and nothing in run() catches: the program is terminated.
\* fileSync() has run before the file that was not opened is reported.
OpenFails ==
    /\ Running /\ logger = "writing" /\ output # "CONSOLE"
    /\ fileName' = FileName
    /\ ~CanOpen(fileName')
    /\ files' = Synced(files)
    /\ process' = "ended" /\ logger' = "left"
    /\ UNCHANGED <<output, stop, msgQueue, inHand, platform, now, pushed, shown, runs>>
\* The file just opened is one to delete, after those older than it; it cannot
\* be while it is open, and remove() throws.
SyncFails ==
    /\ Running /\ logger = "writing" /\ output # "CONSOLE"
    /\ fileName' = FileName
    /\ CanOpen(fileName') /\ fileName' \notin DOMAIN Synced(WithOpened(fileName'))
    /\ files' = Restrict(WithOpened(fileName'),
                   {n \in DOMAIN WithOpened(fileName') : ~Older(WithOpened(fileName'), n, fileName')})
    /\ process' = "ended" /\ logger' = "left"
    /\ UNCHANGED <<output, stop, msgQueue, inHand, platform, now, pushed, shown, runs>>

------------------------------------------------------------------------------
(* The machine: time passes, a run is killed, the program is started again. *)

Tick == /\ now < MaxNow
        /\ now' = now + 1
        /\ UNCHANGED <<program, msgQueue, logger, inHand, platform, files, pushed, shown, runs>>

Kill == /\ Running
        /\ process' = "ended" /\ logger' = "left"
        /\ UNCHANGED <<fileName, output, stop, msgQueue, inHand, machine, pushed, shown, runs>>

LastWrite == Max({files[n].time : n \in DOMAIN files} \cup {0})
Restart ==
    /\ process = "ended" /\ run < MaxRuns
    /\ process' = "up" /\ fileName' = <<0>> /\ output' = "EVERYWHERE"
    /\ msgQueue' = <<>> /\ stop' = FALSE
    /\ logger' = "test" /\ inHand' = NoLine
    /\ pushed' = 0 /\ shown' = <<>>
    /\ run' = run + 1 /\ inherited' = LastWrite
    /\ UNCHANGED machine

LoggerThread == Block \/ Leave \/ Pop \/ ToConsole \/ ToFile \/ OpenFails \/ SyncFails

Next == \/ \E name \in BaseNames, out \in Outputs : InitLogger(name, out)
        \/ Log
        \/ Stop \/ Destroy \/ Joined
        \/ LoggerThread \/ SpuriousWakeup
        \/ Tick \/ Kill \/ Restart

Spec == Init /\ [][Next]_vars

\* The logger's thread and the thread in the destructor are scheduled.
\* Nothing makes a thread log or push, and nothing wakes a thread for nothing.
FairSpec == Spec /\ WF_vars(LoggerThread) /\ WF_vars(Joined)

------------------------------------------------------------------------------

\* log() and run(): the lines are shown in the order in which the threads got
\* the lock, each of them once, whatever the stop leaves in the queue.
Begun == Len(shown) + (IF inHand = NoLine THEN 0 ELSE 1)
LinesInOrder ==
    /\ \A i \in DOMAIN shown : shown[i].line = i
    /\ inHand \in {NoLine, Len(shown) + 1}
    /\ \A i \in DOMAIN msgQueue : msgQueue[i] = Begun + i
    /\ Begun + Len(msgQueue) = pushed

\* fileSync(): the last LifeTime lines that were shown are in the files, each
\* open and each deletion in between included.  A line shown in the second in
\* which an earlier run of the program has written its last is excepted: its
\* file ties with theirs, and can be the one that is deleted.
InAFile(line) == \E n \in DOMAIN files : [run |-> run, line |-> line] \in files[n].lines
NewestKept ==
    output # "CONSOLE" =>
        \A i \in DOMAIN shown :
            (i + LifeTime > Len(shown) /\ shown[i].at > inherited) => InAFile(shown[i].line)

\* run(): a line that is pushed is shown, unless the logger is stopped or the
\* program ends; in particular a notification is never missed.
EveryLineShown ==
    \A n \in 1 .. MaxLog :
        (pushed >= n) ~> (Len(shown) >= n \/ stop \/ process = "ended")

\* ~FileLogger: the join() of the destructor returns.
DestructorReturns == (process = "joining") ~> (process = "ended")

==============================================================================
