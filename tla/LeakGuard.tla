------------------------------ MODULE LeakGuard ------------------------------
(***************************************************************************)
(* The outbound leak guard (leak_guard.py, `outbound_ok` of bot.py): what  *)
(* is said in a reserved channel is said nowhere else for TTL.             *)
(*                                                                         *)
(* Each bot instance is a process.  Its reader thread records what it hears*)
(* in its reserved channels, its writer thread checks every outgoing line  *)
(* and records our own words said there.  The memory is a file all the     *)
(* instances share: appended to, read whole on each check, and rewritten   *)
(* through a temporary file once it has grown past PRUNE_BYTES.  A lock    *)
(* orders the threads of one process; nothing orders the processes.  So    *)
(* the file system is modelled: names, files, and descriptors that outlive *)
(* the name they were opened by.                                           *)
(***************************************************************************)
EXTENDS Naturals, Sequences, FiniteSets, SequencesExt

CONSTANTS
    Proc,         \* the bot instances
    Mine,         \* those that bot.reserved gives a reserved channel
    Text,         \* what can be said
    Shares,       \* <<t, u>>: t and u share NGRAM consecutive words
    Names,        \* the texts that name a reserved channel
    TTL,          \* how long a line is remembered
    PRUNE_BYTES,  \* lines past which the file is rewritten
    MaxClock,     \* bound: the time
    MaxHeard,     \* bound: lines heard or said in reserved channels
    MaxSent       \* bound: lines the FIFO asks for

ASSUME LeakAssumption ==
    /\ IsFiniteSet(Proc) /\ Mine \subseteq Proc
    /\ Text # {}
    /\ Shares \subseteq Text \X Text
    /\ Names \subseteq Text
    /\ TTL \in Nat /\ PRUNE_BYTES \in Nat
    /\ MaxClock \in Nat /\ MaxHeard \in Nat /\ MaxSent \in Nat

VARIABLES
    clock,    \* int(now())
    store,    \* the file store_file names, 0 when there is none
    tmp,      \* the file store_file + ".tmp" names
    content,  \* the lines of each file
    lock,     \* per process, the thread that holds LeakGuard.lock
    pc,       \* per thread, what it does next
    job,      \* per thread, its line, its target, its open file, the lines it keeps
    heard,    \* history: the lines whose record() has written them
    sent,     \* history: what left, and what had been heard when its check began
    lines,    \* lines heard or said in reserved channels so far
    requests     \* lines the FIFO requests for so far

leakVars == <<clock, store, tmp, content, lock, pc, job, heard, sent, lines, requests>>

Thread == Proc \X {"reader", "writer"}
ProcOf(th) == th[1]
File   == 1 .. 2 + Cardinality(Thread)
Entry  == [time : Nat, host : Proc, text : Text]
Target == {"reserved", "channel", "trusted-dm", "services"}
Free   == <<>>

\* What is left of the guard's calls, in the order of the code.
Label == {"idle", "check", "open", "append", "size", "read", "tmp", "write", "replace", "send"}

Job == [line : Entry, target : Target, fd : File \cup {0}, keep : Seq(Entry), known : SUBSET Entry]

\* An idle thread has no job; its fields are any.
NoJob(p) == [line |-> [time |-> 0, host |-> p, text |-> CHOOSE t \in Text : TRUE],
             target |-> "channel", fd |-> 0, keep |-> << >>, known |-> {}]

-----------------------------------------------------------------------------
\* _fresh
Fresh(e) == e.time + TTL >= clock

\* A file lives while it has a name or a descriptor.
Live(names, jobs) == names \cup {jobs[th].fd : th \in Thread}

Collected(c, live) == [f \in File |-> IF f \in live THEN c[f] ELSE << >>]

NewFile == CHOOSE f \in File : f \notin Live({store, tmp}, job)

Lines(file) == IF file = 0 THEN << >> ELSE content[file]

\* The fresh lines of a file, in order: the k-th has k of them up to it.
FreshLines(file) ==
    LET fresh == {i \in DOMAIN Lines(file) : Fresh(Lines(file)[i])}
        upTo(i) == Cardinality({j \in fresh : j <= i})
    IN [k \in 1 .. Cardinality(fresh) |-> Lines(file)[CHOOSE i \in fresh : upTo(i) = k]]

Step(th, from, to) == pc[th] = from /\ pc' = [pc EXCEPT ![th] = to]

\* Where a thread goes once its line is recorded.
AfterRecord(th) == IF th[2] = "reader" THEN "idle" ELSE "send"

Done(th) == job' = [job EXCEPT ![th] = NoJob(ProcOf(th))]

Release(th, from) ==
    /\ Step(th, from, AfterRecord(th))
    /\ IF th[2] = "reader" THEN Done(th) ELSE UNCHANGED job
    /\ lock' = [lock EXCEPT ![ProcOf(th)] = Free]

NewJob(th, t, target, known) ==
    job' = [job EXCEPT ![th] =
        [line |-> [time |-> clock, host |-> ProcOf(th), text |-> t],
         target |-> target, fd |-> 0, keep |-> << >>, known |-> known]]

-----------------------------------------------------------------------------
(* record(): one action per file operation, under the process's lock.      *)

\* A line of a reserved channel of ours reaches the reader thread.
Hear(th, t) ==
    /\ th[2] = "reader" /\ ProcOf(th) \in Mine
    /\ lines < MaxHeard
    /\ lines' = lines + 1
    /\ Step(th, "idle", "open")
    /\ NewJob(th, t, "reserved", {})
    /\ UNCHANGED <<clock, store, tmp, content, lock, heard, sent, requests>>

\* Mutant: the lock is not waited for.
OpenUnlocked(th) ==
    /\ Step(th, "open", "append")
    /\ lock' = [lock EXCEPT ![ProcOf(th)] = th]
    /\ store' = IF store = 0 THEN NewFile ELSE store
    /\ job' = [job EXCEPT ![th].fd = store']
    /\ UNCHANGED <<clock, tmp, content, heard, sent, lines, requests>>

Open(th) ==
    /\ lock[ProcOf(th)] = Free
    /\ Step(th, "open", "append")
    /\ lock' = [lock EXCEPT ![ProcOf(th)] = th]
    /\ store' = IF store = 0 THEN NewFile ELSE store
    /\ job' = [job EXCEPT ![th].fd = store']
    /\ UNCHANGED <<clock, tmp, content, heard, sent, lines, requests>>

AppendLine(th) ==
    /\ Step(th, "append", "size")
    /\ job' = [job EXCEPT ![th].fd = 0]
    /\ content' = Collected([content EXCEPT ![job[th].fd] = Append(@, job[th].line)],
                            Live({store, tmp}, job'))
    /\ heard' = heard \cup {job[th].line}
    /\ UNCHANGED <<clock, store, tmp, lock, sent, lines, requests>>

KeepSmall(th) ==
    /\ Len(Lines(store)) <= PRUNE_BYTES
    /\ Release(th, "size")
    /\ UNCHANGED <<clock, store, tmp, content, heard, sent, lines, requests>>

StartPrune(th) ==
    /\ Len(Lines(store)) > PRUNE_BYTES
    /\ Step(th, "size", "read")
    /\ UNCHANGED <<clock, store, tmp, content, lock, job, heard, sent, lines, requests>>

PruneRead(th) ==
    /\ Step(th, "read", "tmp")
    /\ job' = [job EXCEPT ![th].keep = FreshLines(store)]
    /\ UNCHANGED <<clock, store, tmp, content, lock, heard, sent, lines, requests>>

\* open(tmp, "w"): the file is created, or truncated under whoever has it.
PruneOpen(th) ==
    /\ Step(th, "tmp", "write")
    /\ tmp' = IF tmp = 0 THEN NewFile ELSE tmp
    /\ content' = [content EXCEPT ![tmp'] = << >>]
    /\ job' = [job EXCEPT ![th].fd = tmp']
    /\ UNCHANGED <<clock, store, lock, heard, sent, lines, requests>>

\* writelines() from the start of the file, over what another wrote there.
PruneWrite(th) ==
    LET keep == job[th].keep IN
    /\ Step(th, "write", "replace")
    /\ job' = [job EXCEPT ![th].fd = 0, ![th].keep = << >>]
    /\ content' = Collected([content EXCEPT ![job[th].fd] =
                                keep \o SubSeq(@, Len(keep) + 1, Len(@))],
                            Live({store, tmp}, job'))
    /\ UNCHANGED <<clock, store, tmp, lock, heard, sent, lines, requests>>

\* os.replace: with the name gone it fails, and record() ignores that.
PruneReplace(th) ==
    /\ Release(th, "replace")
    /\ IF tmp # 0 THEN store' = tmp /\ tmp' = 0 ELSE UNCHANGED <<store, tmp>>
    /\ content' = Collected(content, Live({store', tmp'}, job'))
    /\ UNCHANGED <<clock, heard, sent, lines, requests>>

-----------------------------------------------------------------------------
(* The writer thread: outbound_ok, then the line leaves.                   *)

Ask(th, t, target) ==
    /\ th[2] = "writer"
    /\ IF target = "reserved"
       THEN ProcOf(th) \in Mine /\ lines < MaxHeard /\ lines' = lines + 1
       ELSE UNCHANGED lines
    /\ requests < MaxSent
    /\ requests' = requests + 1
    /\ Step(th, "idle", "check")
    /\ NewJob(th, t, target, heard)
    /\ UNCHANGED <<clock, store, tmp, content, lock, heard, sent>>

\* Mutant: the lines of other networks are not looked at.
WordsHereOnly(th, t) ==
    \E e \in Range(Lines(store)) : Fresh(e) /\ e.host = ProcOf(th) /\ <<t, e.text>> \in Shares

\* check(), words: a fresh line of the store shares a run with the text.
Words(th, t) ==
    \E e \in Range(Lines(store)) : Fresh(e) /\ <<t, e.text>> \in Shares

Blocked(th) ==
    /\ job[th].target = "channel"
    /\ job[th].line.text \in Names \/ Words(th, job[th].line.text)

Block(th) ==
    /\ Blocked(th)
    /\ Step(th, "check", "idle")
    /\ Done(th)
    /\ UNCHANGED <<clock, store, tmp, content, lock, heard, sent, lines, requests>>

\* What passes is recorded too when it is said in a reserved channel of ours.
Pass(th) ==
    /\ ~Blocked(th)
    /\ Step(th, "check", IF job[th].target = "reserved" THEN "open" ELSE "send")
    /\ job' = [job EXCEPT ![th].line.time = clock]
    /\ UNCHANGED <<clock, store, tmp, content, lock, heard, sent, lines, requests>>

\* The line goes to the socket; the history keeps what was known and fresh.
Send(th) ==
    /\ Step(th, "send", "idle")
    /\ sent' = sent \cup {[text |-> job[th].line.text, target |-> job[th].target,
                           known |-> {e \in job[th].known : Fresh(e)}]}
    /\ Done(th)
    /\ UNCHANGED <<clock, store, tmp, content, lock, heard, lines, requests>>

Tick ==
    /\ clock < MaxClock
    /\ clock' = clock + 1
    /\ UNCHANGED <<store, tmp, content, lock, pc, job, heard, sent, lines, requests>>

-----------------------------------------------------------------------------
Record(th) ==
    \/ Open(th) \/ AppendLine(th) \/ KeepSmall(th) \/ StartPrune(th)
    \/ PruneRead(th) \/ PruneOpen(th) \/ PruneWrite(th) \/ PruneReplace(th)

LeakInit ==
    /\ clock = 0
    /\ store = 0 /\ tmp = 0
    /\ content = [f \in File |-> << >>]
    /\ lock = [p \in Proc |-> Free]
    /\ pc = [th \in Thread |-> "idle"]
    /\ job = [th \in Thread |-> NoJob(ProcOf(th))]
    /\ heard = {}
    /\ sent = {}
    /\ lines = 0 /\ requests = 0

LeakNext ==
    \/ \E th \in Thread :
          \/ \E t \in Text : Hear(th, t) \/ \E target \in Target : Ask(th, t, target)
          \/ Record(th)
          \/ Block(th) \/ Pass(th) \/ Send(th)
    \/ Tick

LeakSpec == LeakInit /\ [][LeakNext]_leakVars

-----------------------------------------------------------------------------
\* Where a thread holds its process's lock.
Locked(th) == pc[th] \in {"append", "size", "read", "tmp", "write", "replace"}

LeakTypeOK ==
    /\ clock \in Nat
    /\ store \in File \cup {0} /\ tmp \in File \cup {0}
    /\ content \in [File -> Seq(Entry)]
    /\ pc \in [Thread -> Label]
    /\ lock \in [Proc -> Thread \cup {Free}]
    /\ \A th \in Thread : Locked(th) <=> lock[ProcOf(th)] = th
    /\ job \in [Thread -> Job]
    /\ heard \subseteq Entry
    /\ lines \in Nat /\ requests \in Nat

(* The store never forgets early: a line heard less than TTL ago is in the *)
(* file store_file names, whatever prune is under way.  True of one        *)
(* process's threads, and so of the bot.reserved in the repository, which  *)
(* gives one instance a reserved channel.                                  *)
StoreKeepsWindow ==
    \A e \in heard : Fresh(e) => Contains(Lines(store), e)

(* The module's promise: a line leaves to a channel only if it names no    *)
(* reserved channel and shares no run of words with anything any instance  *)
(* had heard in one before its check, in the last TTL.                     *)
WordsStayInside ==
    \A s \in sent : s.target = "channel" =>
        /\ s.text \notin Names
        /\ \A e \in s.known : <<s.text, e.text>> \notin Shares
=============================================================================
