------------------------- MODULE FileLogger_Proofs -------------------------
(* The lines of the logger are shown in the order of the lock, each once, for *)
(* every number of lines, runs and files; and the newest of them are kept in  *)
(* the directory (FilesInv, below).                                           *)
EXTENDS FileLogger, FiniteSetTheorems, Selections_Proofs

\* What the queue and the history of the lines shown are made of.
LineTypeOK ==
    /\ logger \in {"test", "blocked", "writing", "left"}
    /\ pushed \in Nat /\ inHand \in Nat /\ now \in Nat
    /\ msgQueue \in Seq(Nat)
    /\ shown \in Seq([line : Nat, at : Nat])

\* The logger has a line in its hand while it writes, and keeps it only when
\* its program has ended under it.
HandInv == /\ logger = "writing" => inHand # NoLine
           /\ logger \in {"test", "blocked"} => inHand = NoLine

IInv == LineTypeOK /\ HandInv /\ LinesInOrder

lines == <<logger, inHand, msgQueue, pushed, shown>>

LEMMA InitIInv == Init => IInv
BY DEF Init, IInv, LineTypeOK, HandInv, LinesInOrder, Begun, NoLine

\* The steps that touch neither the queue nor the hand nor the history.
LEMMA NothingMoves ==
    ASSUME IInv, UNCHANGED <<inHand, msgQueue, pushed, shown>>, now' \in Nat,
           logger' \in {"test", "blocked", "left"}, logger' # "left" => inHand = NoLine
    PROVE  IInv'
BY DEF IInv, LineTypeOK, HandInv, LinesInOrder, Begun, NoLine

\* A new run begins with nothing, as the first did.
LEMMA StartsEmpty ==
    ASSUME IInv, now' = now, msgQueue' = <<>>, shown' = <<>>, pushed' = 0, inHand' = NoLine,
           logger' = "test"
    PROVE  IInv'
BY DEF IInv, LineTypeOK, HandInv, LinesInOrder, Begun, NoLine

\* Numbers in a row stay so when the next is appended and when the first leaves.
LEMMA NextAppended ==
    ASSUME NEW q \in Seq(Nat), NEW k \in Nat, \A i \in DOMAIN q : q[i] = k + i
    PROVE  LET r == Append(q, k + Len(q) + 1)
           IN  r \in Seq(Nat) /\ Len(r) = Len(q) + 1 /\ \A i \in DOMAIN r : r[i] = k + i
<1> DEFINE r == Append(q, k + Len(q) + 1)
<1>1. k + Len(q) + 1 \in Nat /\ Len(q) \in Nat /\ DOMAIN q = 1 .. Len(q)
  OBVIOUS
<1>2. r \in Seq(Nat) /\ Len(r) = Len(q) + 1 /\ DOMAIN r = 1 .. Len(q) + 1
  BY <1>1
<1>3. r[Len(q) + 1] = k + Len(q) + 1 /\ \A i \in 1 .. Len(q) : r[i] = q[i]
  BY <1>1
<1>4. ASSUME NEW i \in DOMAIN r PROVE r[i] = k + i
  <2>1. CASE i \in 1 .. Len(q)
    BY <1>1, <1>3, <2>1
  <2>2. CASE i = Len(q) + 1
    BY <1>1, <1>3, <2>2
  <2> QED
    BY <1>1, <1>2, <2>1, <2>2
<1> QED
  BY <1>2, <1>4

LEMMA FirstLeaves ==
    ASSUME NEW q \in Seq(Nat), q # <<>>, NEW k \in Nat, \A i \in DOMAIN q : q[i] = k + i
    PROVE  /\ Tail(q) \in Seq(Nat) /\ Len(Tail(q)) + 1 = Len(q)
           /\ \A i \in DOMAIN Tail(q) : Tail(q)[i] = k + 1 + i
           /\ Head(q) = k + 1
<1>1. Len(q) \in Nat \ {0} /\ DOMAIN q = 1 .. Len(q)
  OBVIOUS
<1>2. Tail(q) \in Seq(Nat) /\ Len(Tail(q)) = Len(q) - 1
  OBVIOUS
<1>3. \A i \in 1 .. Len(q) - 1 : Tail(q)[i] = q[i + 1] /\ i + 1 \in DOMAIN q
  BY <1>1
<1>4. Head(q) = q[1] /\ 1 \in DOMAIN q
  BY <1>1
<1> QED
  BY <1>1, <1>2, <1>3, <1>4

LEMMA LogKeeps == ASSUME IInv, Log PROVE IInv'
<1>1. Begun' = Begun /\ Begun \in Nat
  BY DEF IInv, LineTypeOK, Log, Begun
<1>2. msgQueue' = Append(msgQueue, Begun + Len(msgQueue) + 1) /\ pushed' = pushed + 1
  BY DEF IInv, LinesInOrder, Log
<1>3. /\ msgQueue' \in Seq(Nat) /\ Len(msgQueue') = Len(msgQueue) + 1
      /\ \A i \in DOMAIN msgQueue' : msgQueue'[i] = Begun + i
  BY <1>1, <1>2, NextAppended DEF IInv, LineTypeOK, LinesInOrder
<1>4. LineTypeOK' /\ HandInv'
  BY <1>3 DEF IInv, LineTypeOK, HandInv, Log, NotifyOne, machine, MutexIsFree, NoLine
<1>5. Begun + Len(msgQueue') = pushed'
  BY <1>1, <1>2, <1>3 DEF IInv, LineTypeOK, LinesInOrder
<1> QED
  BY <1>1, <1>3, <1>4, <1>5 DEF IInv, LinesInOrder, Log

LEMMA PopKeeps == ASSUME IInv, Pop PROVE IInv'
<1>1. inHand = NoLine /\ Begun = Len(shown) /\ Begun \in Nat
  BY DEF IInv, LineTypeOK, HandInv, Pop, Begun
<1>2. /\ msgQueue' \in Seq(Nat) /\ Len(msgQueue') + 1 = Len(msgQueue)
      /\ \A i \in DOMAIN msgQueue' : msgQueue'[i] = Begun + 1 + i
      /\ inHand' = Len(shown) + 1
  BY <1>1, FirstLeaves DEF IInv, LineTypeOK, LinesInOrder, Pop
<1>3. Begun' = Begun + 1 /\ inHand' \in Nat \ {NoLine}
  BY <1>1, <1>2 DEF Pop, Begun, NoLine
<1>4. LineTypeOK' /\ HandInv'
  BY <1>2, <1>3 DEF IInv, LineTypeOK, HandInv, Pop, machine
<1>5. Begun' + Len(msgQueue') = pushed
  <2>1. Len(msgQueue) \in Nat /\ Len(msgQueue') \in Nat
    BY <1>2 DEF IInv, LineTypeOK
  <2>2. Begun + Len(msgQueue) = pushed
    BY DEF IInv, LinesInOrder
  <2>3. ASSUME NEW b \in Nat, NEW m \in Nat, NEW n \in Nat, n + 1 = m
        PROVE  (b + 1) + n = b + m
    BY ONLY <2>3
  <2>4. (Begun + 1) + Len(msgQueue') = Begun + Len(msgQueue)
    BY <1>1, <1>2, <2>1, <2>3
  <2> QED
    BY <1>3, <2>2, <2>4
<1>6. shown' = shown /\ pushed' = pushed /\ \A i \in DOMAIN shown : shown[i].line = i
  BY DEF IInv, LinesInOrder, Pop
<1>7. \A i \in DOMAIN msgQueue' : msgQueue'[i] = Begun' + i
  BY ONLY <1>2, <1>3
<1>8. LinesInOrder'
  BY ONLY <1>2, <1>5, <1>6, <1>7 DEF LinesInOrder
<1> QED
  BY <1>4, <1>8 DEF IInv

LEMMA ShowKeeps ==
    ASSUME IInv, logger = "writing", Show, UNCHANGED <<msgQueue, pushed, now>>
    PROVE  IInv'
<1>1. inHand = Len(shown) + 1 /\ Begun = Len(shown) + 1
  BY DEF IInv, HandInv, LinesInOrder, Begun
<1>2. LineTypeOK' /\ HandInv'
  BY DEF IInv, LineTypeOK, HandInv, Show, NoLine
<1>3. Begun' = Begun
  BY <1>1 DEF IInv, LineTypeOK, Show, Begun
<1>4. \A i \in DOMAIN shown' : shown'[i].line = i
  BY <1>1 DEF IInv, LineTypeOK, LinesInOrder, Show
<1> QED
  BY <1>2, <1>3, <1>4 DEF IInv, LinesInOrder, Show

LEMMA Inductive == ASSUME IInv, [Next]_vars PROVE IInv'
<1> USE DEF machine, program, runs
<1>1. CASE \E name \in BaseNames, out \in Outputs : InitLogger(name, out)
  BY <1>1 DEF InitLogger, IInv, LineTypeOK, HandInv, LinesInOrder, Begun
<1>2. CASE Log
  BY <1>2, LogKeeps
<1>3. CASE Stop \/ Destroy
  BY <1>3, NothingMoves DEF Stop, Destroy, StopFlag, NotifyOne, MutexIsFree, IInv, LineTypeOK, HandInv
<1>4. CASE Joined
  BY <1>4, NothingMoves DEF Joined, IInv, LineTypeOK, HandInv
<1>5. CASE Block \/ Leave \/ SpuriousWakeup
  BY <1>5, NothingMoves DEF Block, Leave, SpuriousWakeup, IInv, LineTypeOK, HandInv
<1>6. CASE Pop
  BY <1>6, PopKeeps
<1>7. CASE ToConsole \/ ToFile
  BY <1>7, ShowKeeps DEF ToConsole, ToFile
<1>8. CASE OpenFails \/ SyncFails \/ Kill
  BY <1>8, NothingMoves DEF OpenFails, SyncFails, Kill, IInv, LineTypeOK
<1>9. CASE Tick
  BY <1>9 DEF Tick, IInv, LineTypeOK, HandInv, LinesInOrder, Begun
<1>10. CASE Restart
  BY <1>10, StartsEmpty DEF Restart
<1>11. CASE UNCHANGED vars
  BY <1>11 DEF vars, IInv, LineTypeOK, HandInv, LinesInOrder, Begun
<1> QED
  BY <1>1, <1>2, <1>3, <1>4, <1>5, <1>6, <1>7, <1>8, <1>9, <1>10, <1>11
  DEF Next, LoggerThread

\* log() and run(): every line that is pushed is shown, in hand or queued, in
\* the order of the lock, however often the program is stopped, killed or
\* started again, and however many lines and files there are.
THEOREM LinesOrdered == Spec => []LinesInOrder
<1>1. IInv => LinesInOrder
  BY DEF IInv
<1> QED
  BY <1>1, InitIInv, Inductive, PTL DEF Spec

------------------------------------------------------------------------------
(* The newest lines are in the files.                                      *)

\* Where line i was written, if it went to a file: getFileName() appends a date
\* for each line.
NameOf(name, i) == SubSeq(name, 1, i + 1)

ClockInv == /\ now \in Nat /\ run \in Nat /\ inherited \in 0..now
            /\ fileName \in Seq(Nat)
            /\ \A n \in DOMAIN files : files[n].time \in 0..now
            /\ \A i \in DOMAIN shown : shown[i].at \in 0..now
            /\ \A i, j \in DOMAIN shown : i <= j => shown[i].at <= shown[j].at

\* A name has a date for each line, and one more for the line at which the
\* program was terminated.
Dated == output # "CONSOLE" => /\ Len(fileName) >= Len(shown) + 1
                               /\ Running => Len(fileName) = Len(shown) + 1

\* While the program runs, what is newer than the files of the runs before it
\* is the file of a line it has shown.
OwnFiles == Running => \A n \in DOMAIN files : files[n].time > inherited =>
                \E j \in DOMAIN shown : n = NameOf(fileName, j) /\ files[n].time = shown[j].at

\* The file that has a line still has the time at which it was shown.
InItsFile(i) == LET n == NameOf(fileName, i)
                IN  /\ n \in DOMAIN files /\ files[n].time = shown[i].at
                    /\ [run |-> run, line |-> shown[i].line] \in files[n].lines
NewestInPlace == output # "CONSOLE" =>
    \A i \in DOMAIN shown : (i + LifeTime > Len(shown) /\ shown[i].at > inherited) => InItsFile(i)

FilesInv == ClockInv /\ Dated /\ OwnFiles /\ NewestInPlace

------------------------------------------------------------------------------
(* The order of the files.                                                 *)

\* The name of a line is not before that of an earlier one.
LEMMA LaterIsNotBefore ==
    ASSUME NEW F \in Seq(Nat), NEW i \in Nat, NEW j \in Nat, j <= i, i + 1 <= Len(F)
    PROVE  ~Before(NameOf(F, i), NameOf(F, j))
<1> DEFINE a == NameOf(F, i)
           b == NameOf(F, j)
<1>1. a = SubSeq(F, 1, i + 1) /\ b = SubSeq(F, 1, j + 1)
  BY DEF NameOf
<1>2. /\ a \in Seq(Nat) /\ Len(a) = i + 1 /\ \A k \in 1..(i + 1) : a[k] = F[k] /\ F[k] \in Nat
      /\ b \in Seq(Nat) /\ Len(b) = j + 1 /\ \A k \in 1..(j + 1) : b[k] = F[k]
  BY <1>1
<1>3. ~IsStrictPrefix(a, b)
  <2> SUFFICES ASSUME Len(a) <= Len(b), a # b PROVE FALSE
    BY DEF IsStrictPrefix, IsPrefix
  <2>1. i = j
    BY <1>2
  <2> QED
    BY <1>1, <2>1
<1>4. ASSUME NEW k \in DOMAIN a \cap DOMAIN b PROVE ~(a[k] < b[k])
  <2>1. k \in 1..(i + 1) /\ k \in 1..(j + 1)
    BY <1>2
  <2>2. a[k] = b[k] /\ a[k] \in Nat
    BY <1>2, <2>1
  <2> QED
    BY <2>2
<1> HIDE DEF a, b
<1> QED
  BY <1>3, <1>4 DEF Before, a, b

\* A file is kept where the files behind it are those of fewer than LifeTime
\* lines.
LEMMA KeptIfFewBehind ==
    ASSUME NEW F \in Seq(Nat), NEW n \in Nat, NEW m \in Nat, n <= m, m < n + LifeTime, m + 1 <= Len(F),
           NEW fs, NEW a \in DOMAIN fs,
           \A b \in DOMAIN fs : Older(fs, a, b) => \E j \in (n + 1)..m : b = NameOf(F, j)
    PROVE  a \in Kept(fs)
<1> DEFINE T == {b \in DOMAIN fs : Older(fs, a, b)}
           S == (n + 2)..(m + 1)
           f == [b \in T |-> Len(b)]
<1>1. ASSUME NEW j \in (n + 1)..m PROVE Len(NameOf(F, j)) = j + 1
  BY DEF NameOf
<1>2. ASSUME NEW b \in T PROVE \E j \in (n + 1)..m : b = NameOf(F, j) /\ Len(b) = j + 1
  BY <1>1
<1>3. f \in [T -> S]
  BY <1>2
<1>4. ASSUME NEW b \in T, NEW c \in T, f[b] = f[c] PROVE b = c
  BY <1>2, <1>4
<1>5. f \in Injection(T, S)
  BY <1>3, <1>4 DEF Injection, IsInjective
<1>6. IsFiniteSet(S) /\ Cardinality(S) = m - n
  <2>1. n + 2 \in Int /\ m + 1 \in Int
    OBVIOUS
  <2>2. IsFiniteSet(S) /\ Cardinality(S) = IF n + 2 > m + 1 THEN 0 ELSE (m + 1) - (n + 2) + 1
    BY <2>1, FS_Interval
  <2> QED
    BY <2>2
<1> HIDE DEF T, S, f
<1>7. IsFiniteSet(T) /\ Cardinality(T) <= Cardinality(S)
  BY <1>5, <1>6, FS_Injection
<1>8. Cardinality(T) \in Nat
  BY <1>7, FS_CardinalityType
<1>9. LifeTime \in Nat
  BY LoggerAssumption
<1>10. Cardinality(T) < LifeTime
  BY <1>6, <1>7, <1>8, <1>9
<1> QED
  BY <1>10 DEF T, Kept

------------------------------------------------------------------------------
(* The steps.                                                              *)

LEMMA DateType == ASSUME ClockInv PROVE Date \in Nat /\ FileName \in Seq(Nat) /\ Len(FileName) = Len(fileName) + 1
<1>1. DayLength \in Nat \ {0} /\ now \in Nat
  BY LoggerAssumption DEF ClockInv
<1>2. Date \in Nat
  BY <1>1 DEF Date
<1> QED
  BY <1>2 DEF FileName, ClockInv

\* The file of a line does not change its name.
LEMMA NamesStay ==
    ASSUME ClockInv, NEW i \in Nat, i + 1 <= Len(fileName)
    PROVE  NameOf(FileName, i) = NameOf(fileName, i) /\ Len(NameOf(fileName, i)) = i + 1
<1>1. FileName = Append(fileName, Date) /\ Date \in Nat /\ fileName \in Seq(Nat)
  BY DateType DEF FileName, ClockInv
<1>2. SubSeq(Append(fileName, Date), 1, i + 1) = SubSeq(fileName, 1, i + 1)
  BY <1>1
<1>3. Len(SubSeq(fileName, 1, i + 1)) = i + 1
  BY <1>1
<1> QED
  BY <1>1, <1>2, <1>3 DEF NameOf

LEMMA Lines == ASSUME IInv PROVE /\ Len(shown) \in Nat /\ DOMAIN shown = 1..Len(shown)
                                 /\ pushed = 0 => shown = <<>>
<1>1. Len(shown) \in Nat /\ DOMAIN shown = 1..Len(shown) /\ Len(msgQueue) \in Nat
      /\ shown \in Seq([line : Nat, at : Nat])
  BY DEF IInv, LineTypeOK
<1>2. pushed = 0 => Len(shown) = 0
  BY <1>1 DEF IInv, LinesInOrder, Begun
<1> QED
  BY <1>1, <1>2

\* Behind the file of one of the newest lines, there are those of later ones.
LEMMA BehindInFiles ==
    ASSUME IInv, FilesInv, Running, output # "CONSOLE",
           NEW i \in DOMAIN shown, i + LifeTime > Len(shown), shown[i].at > inherited,
           NEW m \in DOMAIN files, Older(files, NameOf(fileName, i), m)
    PROVE  \E j \in (i + 1)..Len(shown) : m = NameOf(fileName, j)
<1> DEFINE n == NameOf(fileName, i)
<1>1. n \in DOMAIN files /\ files[n].time = shown[i].at
  BY DEF FilesInv, NewestInPlace, InItsFile
<1>2. /\ files[m].time \in Nat /\ shown[i].at \in Nat /\ inherited \in Nat
      /\ Len(shown) \in Nat /\ DOMAIN shown = 1..Len(shown)
      /\ fileName \in Seq(Nat) /\ Len(fileName) = Len(shown) + 1
  BY Lines DEF FilesInv, ClockInv, Dated
<1>3. files[n].time < files[m].time \/ (files[n].time = files[m].time /\ Before(n, m))
  BY DEF Older
<1>4. files[m].time > inherited
  BY <1>1, <1>2, <1>3
<1>5. PICK j \in DOMAIN shown : m = NameOf(fileName, j) /\ files[m].time = shown[j].at
  BY <1>4 DEF FilesInv, OwnFiles
<1>6. ASSUME j <= i PROVE FALSE
  <2>1. shown[j].at <= shown[i].at /\ shown[j].at \in Nat
    BY <1>6 DEF FilesInv, ClockInv
  <2>2. Before(n, m)
    BY <1>1, <1>2, <1>3, <1>5, <2>1
  <2>3. ~Before(NameOf(fileName, i), NameOf(fileName, j))
    BY <1>2, <1>6, LaterIsNotBefore
  <2> QED
    BY <1>5, <2>2, <2>3
<1>7. j \in (i + 1)..Len(shown)
  BY <1>2, <1>6
<1> QED
  BY <1>5, <1>7

LEMMA SyncedType ==
    ASSUME NEW fs
    PROVE  /\ Kept(fs) \subseteq DOMAIN Synced(fs) \/ platform # "windows"
           /\ platform # "windows" => DOMAIN Synced(fs) = DOMAIN fs
           /\ DOMAIN Synced(fs) \subseteq DOMAIN fs
           /\ \A n \in DOMAIN Synced(fs) : Synced(fs)[n] = fs[n]
BY DEF Synced, Restrict, Kept

LEMMA KeptIsSynced ==
    ASSUME NEW fs, NEW n \in DOMAIN fs, n \in Kept(fs) PROVE n \in DOMAIN Synced(fs)
BY SyncedType

\* The steps that show nothing and touch no file.
LEMMA FilesStay ==
    ASSUME FilesInv, UNCHANGED <<files, shown, inherited, run, now, fileName, output>>, Running' => Running
    PROVE  FilesInv'
<1>1. ClockInv'
  BY DEF FilesInv, ClockInv
<1>2. Dated'
  BY DEF FilesInv, Dated
<1>3. OwnFiles'
  BY DEF FilesInv, OwnFiles
<1>4. NewestInPlace'
  BY DEF FilesInv, NewestInPlace, InItsFile
<1> QED
  BY <1>1, <1>2, <1>3, <1>4 DEF FilesInv

LEMMA TickKeeps == ASSUME IInv, FilesInv, Tick PROVE FilesInv'
<1>1. UNCHANGED <<process, fileName, output, files, shown, run, inherited>> /\ now' = now + 1
  BY DEF Tick, program, runs
<1>2. ClockInv'
  <2>1. /\ now \in Nat /\ run \in Nat /\ inherited \in 0..now /\ fileName \in Seq(Nat)
        /\ \A n \in DOMAIN files : files[n].time \in 0..now
        /\ \A i \in DOMAIN shown : shown[i].at \in 0..now
        /\ \A i, j \in DOMAIN shown : i <= j => shown[i].at <= shown[j].at
    BY DEF FilesInv, ClockInv
  <2>2. \A t \in 0..now : t \in 0..(now + 1)
    BY <2>1
  <2> QED
    BY <1>1, <2>1, <2>2 DEF ClockInv
<1>3. Dated'
  BY <1>1 DEF FilesInv, Dated, Running
<1>4. OwnFiles'
  BY <1>1 DEF FilesInv, OwnFiles, Running
<1>5. NewestInPlace'
  BY <1>1 DEF FilesInv, NewestInPlace, InItsFile
<1> QED
  BY <1>2, <1>3, <1>4, <1>5 DEF FilesInv

LEMMA InitLoggerKeeps ==
    ASSUME IInv, FilesInv, NEW name \in BaseNames, NEW out \in Outputs, InitLogger(name, out)
    PROVE  FilesInv'
<1>1. /\ UNCHANGED <<process, files, now, shown, run, inherited>>
      /\ shown = <<>> /\ fileName' = <<name>> /\ name \in Nat
  BY Lines, LoggerAssumption DEF InitLogger, machine, runs
<1>2. ClockInv'
  BY <1>1 DEF FilesInv, ClockInv
<1>3. Dated'
  BY <1>1 DEF Dated
<1>4. OwnFiles'
  BY <1>1 DEF FilesInv, OwnFiles, Running
<1>5. NewestInPlace'
  BY <1>1 DEF NewestInPlace
<1> QED
  BY <1>2, <1>3, <1>4, <1>5 DEF FilesInv

\* A line that is shown is shown now, after those before it.
LEMMA ShowTimes ==
    ASSUME IInv, ClockInv, Show
    PROVE  /\ Len(shown') = Len(shown) + 1 /\ DOMAIN shown' = 1..(Len(shown) + 1)
           /\ \A i \in DOMAIN shown : shown'[i] = shown[i]
           /\ shown'[Len(shown) + 1].at = now /\ shown'[Len(shown) + 1].line = inHand
           /\ \A i \in DOMAIN shown' : shown'[i].at \in 0..now
           /\ \A i, j \in DOMAIN shown' : i <= j => shown'[i].at <= shown'[j].at
<1>1. PICK s \in Seq([line : Nat, at : Nat]) : s = shown
  BY DEF IInv, LineTypeOK
<1>2. PICK e \in [line : Nat, at : Nat] : e = [line |-> inHand, at |-> now]
  BY DEF IInv, LineTypeOK
<1>3. PICK t : t = shown'
  OBVIOUS
<1>4. t = Append(s, e)
  BY <1>1, <1>2, <1>3 DEF Show
<1>5. /\ Len(s) \in Nat /\ DOMAIN s = 1..Len(s)
      /\ Len(t) = Len(s) + 1 /\ DOMAIN t = 1..(Len(s) + 1)
      /\ t[Len(s) + 1] = e /\ \A i \in 1..Len(s) : t[i] = s[i]
  BY <1>4
<1>6. now \in Nat /\ (\A i \in 1..Len(s) : s[i].at \in 0..now)
      /\ \A i, j \in 1..Len(s) : i <= j => s[i].at <= s[j].at
  BY <1>1, <1>5 DEF ClockInv
<1>7. \A i \in DOMAIN t : i \in 1..Len(s) \/ i = Len(s) + 1
  BY <1>5
<1>8. \A i \in DOMAIN t : t[i].at \in 0..now
  BY <1>2, <1>5, <1>6, <1>7
<1>9. ASSUME NEW i \in DOMAIN t, NEW j \in DOMAIN t, i <= j PROVE t[i].at <= t[j].at
  <2>1. CASE j \in 1..Len(s)
    <3>1. i \in 1..Len(s)
      BY <1>5, <1>9, <2>1
    <3> QED
      BY <1>5, <1>6, <1>9, <2>1, <3>1
  <2>2. CASE j = Len(s) + 1
    <3>1. t[j].at = now
      BY <1>2, <1>5, <2>2
    <3>2. t[i].at \in 0..now
      BY <1>8
    <3> QED
      BY <1>6, <3>1, <3>2
  <2> QED
    BY <1>7, <2>1, <2>2
<1> QED
  BY <1>1, <1>2, <1>3, <1>5, <1>8, <1>9

LEMMA ToConsoleKeeps == ASSUME IInv, FilesInv, ToConsole PROVE FilesInv'
<1>1. /\ UNCHANGED <<process, fileName, output, files, now, run, inherited>>
      /\ output = "CONSOLE" /\ Show
  BY DEF ToConsole, program, machine, runs
<1>2. ClockInv
  BY DEF FilesInv
<1>3. ClockInv'
  BY <1>1, <1>2, ShowTimes DEF ClockInv
<1>4. Dated' /\ NewestInPlace'
  BY <1>1 DEF Dated, NewestInPlace
<1>5. OwnFiles'
  <2> SUFFICES ASSUME Running, NEW n \in DOMAIN files, files[n].time > inherited
               PROVE  \E j \in DOMAIN shown' : n = NameOf(fileName, j) /\ files[n].time = shown'[j].at
    BY <1>1 DEF OwnFiles, Running
  <2>1. PICK j \in DOMAIN shown : n = NameOf(fileName, j) /\ files[n].time = shown[j].at
    BY DEF FilesInv, OwnFiles
  <2>2. j \in DOMAIN shown' /\ shown'[j] = shown[j]
    BY <1>1, <1>2, ShowTimes, Lines
  <2> QED
    BY <2>1, <2>2
<1> QED
  BY <1>3, <1>4, <1>5 DEF FilesInv

\* The names of the lines shown are those of the next line, too.
LEMMA NextName ==
    ASSUME IInv, FilesInv, Running, output # "CONSOLE", fileName' = FileName
    PROVE  /\ fileName' \in Seq(Nat) /\ Len(fileName') = Len(shown) + 2
           /\ NameOf(fileName', Len(shown) + 1) = fileName'
           /\ \A i \in DOMAIN shown : /\ NameOf(fileName', i) = NameOf(fileName, i)
                                      /\ NameOf(fileName, i) # fileName'
<1>1. ClockInv /\ Len(fileName) = Len(shown) + 1
  BY DEF FilesInv, Dated
<1>2. /\ fileName' \in Seq(Nat) /\ Len(fileName') = Len(shown) + 2
      /\ Len(shown) \in Nat /\ DOMAIN shown = 1..Len(shown)
  BY <1>1, DateType, Lines
<1>3. PICK name \in Seq(Nat) : name = fileName' /\ Len(name) = Len(shown) + 2
  BY <1>2
<1>4. SubSeq(name, 1, Len(name)) = name
  OBVIOUS
<1>5. NameOf(fileName', Len(shown) + 1) = fileName'
  BY <1>2, <1>3, <1>4 DEF NameOf
<1>6. ASSUME NEW i \in DOMAIN shown
      PROVE  NameOf(fileName', i) = NameOf(fileName, i) /\ NameOf(fileName, i) # fileName'
  <2>1. i \in Nat /\ i + 1 <= Len(fileName) /\ i + 1 < Len(shown) + 2
    BY <1>1, <1>2
  <2>2. NameOf(fileName', i) = NameOf(fileName, i) /\ Len(NameOf(fileName, i)) = i + 1
    BY <1>1, <2>1, NamesStay
  <2> QED
    BY <1>2, <2>1, <2>2
<1> QED
  BY <1>2, <1>5, <1>6

\* What open() leaves: the file of one of the newest lines is where it was, and
\* behind it are files of later lines.
LEMMA OpenedFile ==
    ASSUME IInv, FilesInv, Running, output # "CONSOLE", fileName' = FileName,
           NEW i \in DOMAIN shown, i + LifeTime > Len(shown), shown[i].at > inherited
    PROVE  LET fs == WithOpened(fileName')
               n == NameOf(fileName, i)
           IN  /\ n \in DOMAIN fs /\ n \in DOMAIN files /\ fs[n] = files[n]
               /\ \A m \in DOMAIN fs : Older(fs, n, m) =>
                    \E j \in (i + 1)..(Len(shown) + 1) : m = NameOf(fileName', j)
<1> DEFINE n == NameOf(fileName, i)
<1>1. PICK fs : fs = WithOpened(fileName')
  OBVIOUS
<1>2. DOMAIN fs = DOMAIN files \cup {fileName'} /\ \A m \in DOMAIN files : fs[m] = files[m]
  BY <1>1 DEF WithOpened
<1>3. n \in DOMAIN files
  BY DEF FilesInv, NewestInPlace, InItsFile
<1>4. Len(shown) \in Nat /\ DOMAIN shown = 1..Len(shown)
  BY Lines
<1>5. ASSUME NEW m \in DOMAIN fs, Older(fs, n, m)
      PROVE  \E j \in (i + 1)..(Len(shown) + 1) : m = NameOf(fileName', j)
  <2>1. CASE m \in DOMAIN files
    <3>1. Older(files, n, m)
      BY <1>2, <1>3, <1>5, <2>1 DEF Older
    <3>2. PICK j \in (i + 1)..Len(shown) : m = NameOf(fileName, j)
      BY <2>1, <3>1, BehindInFiles
    <3>3. j \in DOMAIN shown /\ j \in (i + 1)..(Len(shown) + 1)
      BY <1>4
    <3>4. NameOf(fileName', j) = NameOf(fileName, j)
      BY <3>3, NextName
    <3> QED
      BY <3>2, <3>3, <3>4
  <2>2. CASE m = fileName'
    <3>1. m = NameOf(fileName', Len(shown) + 1)
      BY <2>2, NextName
    <3>2. Len(shown) + 1 \in (i + 1)..(Len(shown) + 1)
      BY <1>4
    <3> QED
      BY <3>1, <3>2
  <2> QED
    BY <1>2, <2>1, <2>2
<1> QED
  BY <1>1, <1>2, <1>3, <1>5

\* What sync() deletes of the files fs: never that of one of the newest lines.
LEMMA NewestIsSynced ==
    ASSUME NEW F \in Seq(Nat), NEW i \in Nat, NEW k \in Nat, i <= k, k < i + LifeTime, k + 1 <= Len(F),
           NEW fs, NEW n \in DOMAIN fs,
           \A m \in DOMAIN fs : Older(fs, n, m) => \E j \in (i + 1)..k : m = NameOf(F, j)
    PROVE  n \in DOMAIN Synced(fs)
<1>1. n \in Kept(fs)
  BY KeptIfFewBehind
<1> QED
  BY <1>1, KeptIsSynced

LEMMA ToFileKeeps == ASSUME IInv, FilesInv, ToFile PROVE FilesInv'
<1> DEFINE new == fileName'
           L == Len(shown)
<1>1. /\ UNCHANGED <<process, output, now, run, inherited>>
      /\ Running /\ output # "CONSOLE" /\ fileName' = FileName /\ Show
      /\ new \in DOMAIN Synced(WithOpened(new))
      /\ files' = [Synced(WithOpened(new)) EXCEPT ![new] =
                       [time |-> now, lines |-> @.lines \cup {[run |-> run, line |-> inHand]}]]
  BY DEF ToFile, runs
<1>2. PICK fs, kept : fs = WithOpened(new) /\ kept = Synced(fs)
  OBVIOUS
<1>3. DOMAIN fs = DOMAIN files \cup {new} /\ \A m \in DOMAIN files : fs[m] = files[m]
  BY <1>2 DEF WithOpened
<1>4. DOMAIN kept \subseteq DOMAIN fs /\ (\A m \in DOMAIN kept : kept[m] = fs[m])
  BY <1>2, SyncedType
<1>5. /\ DOMAIN files' = DOMAIN kept /\ new \in DOMAIN kept
      /\ files'[new] = [time |-> now, lines |-> kept[new].lines \cup {[run |-> run, line |-> inHand]}]
      /\ \A m \in DOMAIN kept : m # new => files'[m] = kept[m]
  BY <1>1, <1>2
<1>6. ASSUME NEW m \in DOMAIN files', m # new PROVE m \in DOMAIN files /\ files'[m] = files[m]
  BY <1>3, <1>4, <1>5, <1>6
<1>7. ClockInv /\ L \in Nat /\ DOMAIN shown = 1..L
  BY Lines DEF FilesInv
<1>8. /\ new \in Seq(Nat) /\ Len(new) = L + 2 /\ NameOf(new, L + 1) = new
      /\ \A i \in DOMAIN shown : NameOf(new, i) = NameOf(fileName, i) /\ NameOf(fileName, i) # new
  BY <1>1, NextName
<1>9. /\ Len(shown') = L + 1 /\ DOMAIN shown' = 1..(L + 1)
      /\ \A i \in DOMAIN shown : shown'[i] = shown[i]
      /\ shown'[L + 1].at = now /\ shown'[L + 1].line = inHand
  BY <1>1, <1>7, ShowTimes
<1>10. ClockInv'
  <2>1. ASSUME NEW m \in DOMAIN files' PROVE files'[m].time \in 0..now
    <3>1. CASE m = new
      BY <1>5, <1>7, <3>1 DEF ClockInv
    <3>2. CASE m # new
      BY <1>6, <1>7, <3>2 DEF ClockInv
    <3> QED
      BY <3>1, <3>2
  <2>2. /\ \A i \in DOMAIN shown' : shown'[i].at \in 0..now
        /\ \A i, j \in DOMAIN shown' : i <= j => shown'[i].at <= shown'[j].at
    BY <1>1, <1>7, ShowTimes
  <2>3. now \in Nat /\ run \in Nat /\ inherited \in 0..now
    BY <1>7 DEF ClockInv
  <2> QED
    BY <1>1, <1>8, <2>1, <2>2, <2>3 DEF ClockInv
<1>11. Dated'
  BY <1>7, <1>8, <1>9 DEF Dated
<1>12. OwnFiles'
  <2> SUFFICES ASSUME NEW m \in DOMAIN files', files'[m].time > inherited
               PROVE  \E j \in DOMAIN shown' : m = NameOf(new, j) /\ files'[m].time = shown'[j].at
    BY <1>1 DEF OwnFiles
  <2>1. CASE m = new
    <3>1. L + 1 \in DOMAIN shown' /\ m = NameOf(new, L + 1) /\ files'[m].time = shown'[L + 1].at
      BY <1>5, <1>7, <1>8, <1>9, <2>1
    <3> QED
      BY <3>1
  <2>2. CASE m # new
    <3>1. m \in DOMAIN files /\ files'[m] = files[m]
      BY <1>6, <2>2
    <3>2. PICK j \in DOMAIN shown : m = NameOf(fileName, j) /\ files[m].time = shown[j].at
      BY <1>1, <3>1 DEF FilesInv, OwnFiles
    <3>3. j \in DOMAIN shown' /\ shown'[j] = shown[j] /\ m = NameOf(new, j)
      BY <1>7, <1>8, <1>9, <3>2
    <3> QED
      BY <3>1, <3>2, <3>3
  <2> QED
    BY <2>1, <2>2
<1>13. ASSUME NEW i \in DOMAIN shown', i + LifeTime > L + 1, shown'[i].at > inherited
       PROVE  LET n == NameOf(new, i)
              IN  /\ n \in DOMAIN files' /\ files'[n].time = shown'[i].at
                  /\ [run |-> run, line |-> shown'[i].line] \in files'[n].lines
  <2>1. CASE i = L + 1
    <3>1. NameOf(new, i) = new
      BY <1>8, <2>1
    <3> QED
      BY <1>5, <1>9, <2>1, <3>1
  <2>2. CASE i \in DOMAIN shown
    <3>1. PICK n : n = NameOf(fileName, i) /\ n = NameOf(new, i) /\ n # new
      BY <1>8, <2>2
    <3>2. LifeTime \in Nat /\ i \in Nat /\ i <= L /\ shown'[i] = shown[i]
      BY <1>7, <1>9, <2>2, LoggerAssumption
    <3>3. i + LifeTime > L /\ shown[i].at > inherited
      BY <1>7, <1>13, <3>2
    <3>4. /\ n \in DOMAIN fs /\ n \in DOMAIN files /\ fs[n] = files[n]
          /\ \A m \in DOMAIN fs : Older(fs, n, m) => \E j \in (i + 1)..(L + 1) : m = NameOf(new, j)
      BY <1>1, <1>2, <2>2, <3>1, <3>3, OpenedFile
    <3>5. n \in DOMAIN kept
      <4>1. PICK k \in Nat : k = L + 1 /\ i <= k /\ k < i + LifeTime /\ k + 1 <= Len(new)
        BY <1>7, <1>8, <1>13, <3>2
      <4>2. PICK F \in Seq(Nat) : F = new
        BY <1>8
      <4>3. i \in Nat /\ i <= k /\ k < i + LifeTime /\ k + 1 <= Len(F) /\ n \in DOMAIN fs
        BY <3>2, <3>4, <4>1, <4>2
      <4>4. \A m \in DOMAIN fs : Older(fs, n, m) => \E j \in (i + 1)..k : m = NameOf(F, j)
        BY <3>4, <4>1, <4>2
      <4>5. n \in DOMAIN Synced(fs)
        BY ONLY F \in Seq(Nat), k \in Nat, <4>3, <4>4, NewestIsSynced
      <4> QED
        BY <1>2, <4>5
    <3>6. n \in DOMAIN files' /\ files'[n] = files[n]
      BY <1>4, <1>5, <3>1, <3>4, <3>5
    <3>7. files[n].time = shown[i].at /\ [run |-> run, line |-> shown[i].line] \in files[n].lines
      BY <1>1, <2>2, <3>1, <3>3 DEF FilesInv, NewestInPlace, InItsFile
    <3> QED
      BY <3>1, <3>2, <3>6, <3>7
  <2> QED
    BY <1>7, <1>9, <2>1, <2>2
<1>14. NewestInPlace'
  BY <1>1, <1>9, <1>13 DEF NewestInPlace, InItsFile
<1> QED
  BY <1>10, <1>11, <1>12, <1>14 DEF FilesInv

\* The program ends at a file: the names of its lines and their times stay.
LEMMA EndsAtFile ==
    ASSUME IInv, FilesInv, Running, output # "CONSOLE", fileName' = FileName,
           process' = "ended", UNCHANGED <<output, now, shown, run, inherited>>,
           \A n \in DOMAIN files' : files'[n].time \in 0..now,
           \A i \in DOMAIN shown : i + LifeTime > Len(shown) /\ shown[i].at > inherited =>
               LET n == NameOf(fileName, i) IN n \in DOMAIN files' /\ files'[n] = files[n]
    PROVE  FilesInv'
<1>1. ClockInv /\ Len(shown) \in Nat
  BY Lines DEF FilesInv
<1>2. fileName' \in Seq(Nat) /\ Len(fileName') = Len(shown) + 2
  BY NextName
<1>3. ClockInv'
  <2>1. /\ now \in Nat /\ run \in Nat /\ inherited \in 0..now
        /\ \A i \in DOMAIN shown : shown[i].at \in 0..now
        /\ \A i, j \in DOMAIN shown : i <= j => shown[i].at <= shown[j].at
    BY <1>1 DEF ClockInv
  <2> QED
    BY <1>2, <2>1 DEF ClockInv
<1>4. Dated' /\ OwnFiles'
  BY <1>1, <1>2 DEF Dated, OwnFiles, Running
<1>5. ASSUME NEW i \in DOMAIN shown, i + LifeTime > Len(shown), shown[i].at > inherited
      PROVE  LET n == NameOf(fileName', i)
             IN  /\ n \in DOMAIN files' /\ files'[n].time = shown[i].at
                 /\ [run |-> run, line |-> shown[i].line] \in files'[n].lines
  <2>1. PICK n : n = NameOf(fileName, i) /\ n = NameOf(fileName', i)
    BY NextName
  <2>2. n \in DOMAIN files' /\ files'[n] = files[n]
    BY <1>5, <2>1
  <2>3. files[n].time = shown[i].at /\ [run |-> run, line |-> shown[i].line] \in files[n].lines
    BY <1>5, <2>1 DEF FilesInv, NewestInPlace, InItsFile
  <2> QED
    BY <2>1, <2>2, <2>3
<1>6. NewestInPlace'
  BY <1>5 DEF NewestInPlace, InItsFile
<1> QED
  BY <1>3, <1>4, <1>6 DEF FilesInv

LEMMA OpenFailsKeeps == ASSUME IInv, FilesInv, OpenFails PROVE FilesInv'
<1>1. /\ UNCHANGED <<output, now, shown, run, inherited>> /\ process' = "ended"
      /\ Running /\ output # "CONSOLE" /\ fileName' = FileName /\ files' = Synced(files)
  BY DEF OpenFails, runs
<1>2. /\ DOMAIN files' \subseteq DOMAIN files /\ \A n \in DOMAIN files' : files'[n] = files[n]
  BY <1>1, SyncedType
<1>3. \A n \in DOMAIN files' : files'[n].time \in 0..now
  BY <1>2 DEF FilesInv, ClockInv
<1>4. ASSUME NEW i \in DOMAIN shown, i + LifeTime > Len(shown), shown[i].at > inherited
      PROVE  NameOf(fileName, i) \in DOMAIN files'
  <2>1. PICK n : n = NameOf(fileName, i)
    OBVIOUS
  <2>2. PICK k \in Nat : k = Len(shown) /\ i \in Nat /\ i <= k /\ k < i + LifeTime /\ k + 1 <= Len(fileName)
    <3>1. Len(shown) \in Nat /\ DOMAIN shown = 1..Len(shown) /\ LifeTime \in Nat
      BY Lines, LoggerAssumption
    <3>2. Len(fileName) = Len(shown) + 1
      BY <1>1 DEF FilesInv, Dated
    <3>3. i \in 1..Len(shown)
      BY <3>1
    <3>4. i \in Nat /\ i <= Len(shown) /\ Len(shown) < i + LifeTime /\ Len(shown) + 1 <= Len(fileName)
      BY <1>4, <3>1, <3>2, <3>3
    <3> QED
      BY <3>1, <3>4
  <2>3. n \in DOMAIN files
    BY <1>1, <1>4, <2>1 DEF FilesInv, NewestInPlace, InItsFile
  <2>4. \A m \in DOMAIN files : Older(files, n, m) => \E j \in (i + 1)..k : m = NameOf(fileName, j)
    BY <1>1, <1>4, <2>1, <2>2, BehindInFiles
  <2>5. fileName \in Seq(Nat)
    BY DEF FilesInv, ClockInv
  <2>6. n \in DOMAIN Synced(files)
    BY ONLY k \in Nat, <2>2, <2>3, <2>4, <2>5, NewestIsSynced
  <2> QED
    BY <1>1, <2>1, <2>6
<1> QED
  BY <1>1, <1>2, <1>3, <1>4, EndsAtFile

\* The file just opened is deleted only if it is one of an earlier run, and
\* then the newest lines are in newer files.
LEMMA SyncFailsKeeps == ASSUME IInv, FilesInv, SyncFails PROVE FilesInv'
<1> DEFINE new == fileName'
<1>1. /\ UNCHANGED <<output, now, shown, run, inherited>> /\ process' = "ended"
      /\ Running /\ output # "CONSOLE" /\ fileName' = FileName
      /\ new \notin DOMAIN Synced(WithOpened(new))
      /\ files' = Restrict(WithOpened(new),
                      {n \in DOMAIN WithOpened(new) : ~Older(WithOpened(new), n, new)})
  BY DEF SyncFails, runs
<1>2. PICK fs : fs = WithOpened(new)
  OBVIOUS
<1>3. /\ DOMAIN fs = DOMAIN files \cup {new} /\ \A m \in DOMAIN files : fs[m] = files[m]
      /\ new \notin DOMAIN files => fs[new].time = now
  BY <1>2 DEF WithOpened
<1>4. /\ DOMAIN files' = {n \in DOMAIN fs : ~Older(fs, n, new)}
      /\ \A n \in DOMAIN files' : files'[n] = fs[n]
  BY <1>1, <1>2 DEF Restrict
<1>5. ClockInv /\ Len(shown) \in Nat /\ DOMAIN shown = 1..Len(shown)
  BY Lines DEF FilesInv
<1>6. \A n \in DOMAIN fs : fs[n].time \in 0..now
  <2>1. ASSUME NEW n \in DOMAIN fs PROVE fs[n].time \in 0..now
    <3>1. CASE n \in DOMAIN files
      BY <1>3, <1>5, <3>1 DEF ClockInv
    <3>2. CASE n \notin DOMAIN files
      <4>1. fs[n].time = now
        BY <1>3, <3>2
      <4> QED
        BY <1>5, <4>1 DEF ClockInv
    <3> QED
      BY <3>1, <3>2
  <2> QED
    BY <2>1
<1>7. /\ new \in Seq(Nat) /\ Len(new) = Len(shown) + 2 /\ NameOf(new, Len(shown) + 1) = new
      /\ \A i \in DOMAIN shown : NameOf(new, i) = NameOf(fileName, i) /\ NameOf(fileName, i) # new
  BY <1>1, NextName
<1>8. ASSUME NEW m \in DOMAIN files, files[m].time > inherited
      PROVE  \E j \in DOMAIN shown : m = NameOf(new, j) /\ m # new
  <2>1. PICK j \in DOMAIN shown : m = NameOf(fileName, j)
    BY <1>1, <1>8 DEF FilesInv, OwnFiles
  <2> QED
    BY <1>7, <2>1
<1>9. ASSUME new \notin DOMAIN files, now > inherited PROVE FALSE
  <2>1. ASSUME NEW m \in DOMAIN fs, Older(fs, new, m) PROVE FALSE
    <3>1. fs[m].time = now /\ Before(new, m)
      <4>1. fs[new].time < fs[m].time \/ (fs[new].time = fs[m].time /\ Before(new, m))
        BY <2>1 DEF Older
      <4>2. fs[new].time = now /\ fs[m].time \in 0..now /\ now \in Nat
        BY <1>3, <1>5, <1>6, <1>9 DEF ClockInv
      <4> QED
        BY <4>1, <4>2
    <3>2. PICK j \in 1..(Len(shown) + 1) : m = NameOf(new, j)
      <4>1. CASE m \in DOMAIN files
        <5>1. files[m].time > inherited
          BY <1>3, <1>9, <3>1, <4>1
        <5>2. PICK j \in DOMAIN shown : m = NameOf(new, j)
          BY <1>8, <4>1, <5>1
        <5>3. j \in 1..(Len(shown) + 1)
          BY <1>5
        <5> QED
          BY <5>2, <5>3
      <4>2. CASE m = new
        <5>1. Len(shown) + 1 \in 1..(Len(shown) + 1)
          BY <1>5
        <5> QED
          BY <1>7, <4>2, <5>1
      <4> QED
        BY <1>3, <4>1, <4>2
    <3>3. PICK F \in Seq(Nat), k \in Nat : F = new /\ k = Len(shown) + 1 /\ k + 1 <= Len(F)
      BY <1>5, <1>7
    <3>4. j \in Nat /\ j <= k
      BY <1>5, <3>3
    <3>5. ~Before(NameOf(F, k), NameOf(F, j))
      BY ONLY F \in Seq(Nat), k \in Nat, <3>3, <3>4, LaterIsNotBefore
    <3> QED
      BY <1>7, <3>1, <3>2, <3>3, <3>5
  <2>2. PICK F \in Seq(Nat), k \in Nat : F = new /\ k = Len(shown) + 1 /\ k + 1 <= Len(F) /\ k < k + LifeTime
    BY <1>5, <1>7, LoggerAssumption
  <2>3. \A m \in DOMAIN fs : Older(fs, new, m) => \E j \in (k + 1)..k : m = NameOf(F, j)
    BY <2>1
  <2>4. new \in DOMAIN fs
    BY <1>3
  <2>5. new \in DOMAIN Synced(fs)
    BY ONLY F \in Seq(Nat), k \in Nat, <2>2, <2>3, <2>4, NewestIsSynced
  <2> QED
    BY <1>1, <1>2, <2>5
<1>10. ASSUME NEW i \in DOMAIN shown, i + LifeTime > Len(shown), shown[i].at > inherited
       PROVE  LET n == NameOf(fileName, i) IN n \in DOMAIN files' /\ files'[n] = files[n]
  <2>1. PICK n : n = NameOf(fileName, i)
    OBVIOUS
  <2>2. n \in DOMAIN files /\ files[n].time = shown[i].at
    BY <1>1, <1>10, <2>1 DEF FilesInv, NewestInPlace, InItsFile
  <2>3. shown[i].at \in 0..now /\ now \in Nat /\ inherited \in Nat
    BY <1>5 DEF ClockInv
  <2>4. new \in DOMAIN files
    BY <1>9, <1>10, <2>3
  <2>5. files[new].time \in Nat /\ ~(files[new].time > inherited)
    BY <1>5, <1>8, <2>4 DEF ClockInv
  <2>6. fs[n].time = shown[i].at /\ fs[new].time = files[new].time
    BY <1>3, <2>2, <2>4
  <2>7. ~Older(fs, n, new)
    BY <1>10, <2>3, <2>5, <2>6 DEF Older
  <2>8. n \in DOMAIN files'
    BY <1>3, <1>4, <2>2, <2>7
  <2> QED
    BY <1>3, <1>4, <2>1, <2>2, <2>8
<1>11. \A n \in DOMAIN files' : files'[n].time \in 0..now
  BY <1>4, <1>6
<1> QED
  BY <1>1, <1>10, <1>11, EndsAtFile

\* The time of the last write is that of a file, and none is later.
LEMMA LastWriteIsLast ==
    ASSUME ClockInv
    PROVE  LastWrite \in 0..now /\ \A n \in DOMAIN files : files[n].time <= LastWrite
<1> DEFINE S == {files[n].time : n \in DOMAIN files} \cup {0}
           T == {now - t : t \in S}
<1>1. now \in Nat /\ S \subseteq 0..now /\ 0 \in S
  BY DEF ClockInv
<1>2. T \subseteq Nat /\ T # {}
  <2>1. \A t \in S : t \in 0..now /\ now - t \in Nat
    BY <1>1
  <2>2. now - 0 \in T
    BY <1>1
  <2> QED
    BY <2>1, <2>2
<1>3. PICK x \in T : \A y \in T : x <= y
  <2> HIDE DEF T
  <2> QED
    BY <1>2, Least
<1>4. PICK m \in S : x = now - m
  OBVIOUS
<1>5. \A t \in S : m >= t
  <2> SUFFICES ASSUME NEW t \in S PROVE m >= t
    OBVIOUS
  <2>1. now - t \in T
    OBVIOUS
  <2>2. x <= now - t
    BY <1>3, <2>1
  <2> QED
    BY <1>1, <1>4, <2>2
<1>6. Max(S) \in S /\ \A t \in S : Max(S) >= t
  <2> HIDE DEF S
  <2> QED
    BY <1>5 DEF Max
<1>7. LastWrite = Max(S)
  BY DEF LastWrite
<1> HIDE DEF S
<1>8. LastWrite \in 0..now
  BY <1>1, <1>6, <1>7
<1>9. ASSUME NEW n \in DOMAIN files PROVE files[n].time <= LastWrite
  <2>1. files[n].time \in S
    BY DEF S
  <2>2. files[n].time \in 0..now
    BY <1>1, <2>1
  <2> QED
    BY <1>6, <1>7, <1>8, <2>1, <2>2
<1> QED
  BY <1>8, <1>9

LEMMA RestartKeeps == ASSUME IInv, FilesInv, Restart PROVE FilesInv'
<1>1. /\ UNCHANGED <<files, now>> /\ fileName' = <<0>> /\ shown' = <<>>
      /\ run' = run + 1 /\ inherited' = LastWrite
  BY DEF Restart, machine
<1>2. ClockInv
  BY DEF FilesInv
<1>3. LastWrite \in 0..now /\ \A n \in DOMAIN files : files[n].time <= LastWrite
  BY <1>2, LastWriteIsLast
<1>4. ClockInv'
  BY <1>1, <1>2, <1>3 DEF ClockInv
<1>5. Dated' /\ NewestInPlace'
  BY <1>1 DEF Dated, NewestInPlace
<1>6. OwnFiles'
  <2>1. ASSUME NEW n \in DOMAIN files PROVE ~(files[n].time > LastWrite)
    BY <1>2, <1>3 DEF ClockInv
  <2> QED
    BY <1>1, <2>1 DEF OwnFiles
<1> QED
  BY <1>4, <1>5, <1>6 DEF FilesInv

LEMMA InitFiles == Init => FilesInv
<1> SUFFICES ASSUME Init PROVE FilesInv
  OBVIOUS
<1>1. /\ fileName = <<0>> /\ shown = <<>> /\ DOMAIN files = {} /\ now = 1 /\ run = 1 /\ inherited = 0
  BY DEF Init, NoFiles
<1>2. ClockInv
  BY <1>1 DEF ClockInv
<1>3. Dated /\ OwnFiles /\ NewestInPlace
  BY <1>1 DEF Dated, OwnFiles, NewestInPlace
<1> QED
  BY <1>2, <1>3 DEF FilesInv

LEMMA FilesInductive == ASSUME IInv, FilesInv, [Next]_vars PROVE FilesInv'
<1> USE DEF machine, program, runs, Running
<1>1. CASE \E name \in BaseNames, out \in Outputs : InitLogger(name, out)
  BY <1>1, InitLoggerKeeps
<1>2. CASE Log
  BY <1>2, FilesStay DEF Log
<1>3. CASE Stop \/ Destroy \/ Joined
  BY <1>3, FilesStay DEF Stop, Destroy, Joined
<1>4. CASE Block \/ Leave \/ SpuriousWakeup \/ Pop
  BY <1>4, FilesStay DEF Block, Leave, SpuriousWakeup, Pop
<1>5. CASE Kill
  BY <1>5, FilesStay DEF Kill
<1>6. CASE Tick
  BY <1>6, TickKeeps
<1>7. CASE UNCHANGED vars
  BY <1>7, FilesStay DEF vars
<1>8. CASE ToConsole \/ ToFile \/ OpenFails \/ SyncFails \/ Restart
  BY <1>8, ToConsoleKeeps, ToFileKeeps, OpenFailsKeeps, SyncFailsKeeps, RestartKeeps
<1> QED
  BY <1>1, <1>2, <1>3, <1>4, <1>5, <1>6, <1>7, <1>8 DEF Next, LoggerThread

\* fileSync(): the last LifeTime lines that were shown are in the files, through
\* every open, every deletion, and the files that earlier runs have left, but
\* for the second in which an earlier run has written its last; for every
\* LifeTime, clock, name and number of runs.
THEOREM NewestAreKept == Spec => []NewestKept
<1>1. FilesInv => NewestKept
  BY DEF FilesInv, NewestInPlace, InItsFile, NewestKept, InAFile
<1>2. IInv /\ FilesInv /\ [Next]_vars => IInv' /\ FilesInv'
  BY Inductive, FilesInductive
<1> QED
  BY <1>1, <1>2, InitIInv, InitFiles, PTL DEF Spec
==============================================================================
