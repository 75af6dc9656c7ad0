----------------------------- MODULE BsdServer -----------------------------
(***************************************************************************)
(* The BSD server (Developer/BSD): a process table whose entries carry     *)
(* descriptor tables, served by one loop that reaps dead host children and *)
(* then answers one system call.  The host kernel (descriptors, processes, *)
(* files) is the server's environment: all tracked processes share the     *)
(* server's single host descriptor table, which is what makes the mapping  *)
(* from BSD descriptors to host descriptors delicate.                      *)
(*                                                                         *)
(* A request is chosen when the loop dequeues it: the head of the queue is *)
(* any call a client could have sent.  A child made by fork runs a copy of *)
(* the server in memory of its own and is seen here only as a host pid.    *)
(***************************************************************************)
EXTENDS Integers, FiniteSets

CONSTANTS BSD_MAX_PROCESSES,  \* slots of process_table
          NStd,               \* standard descriptors: 3 in the code
          BSD_MAX_FD,         \* descriptors of a process
          HostMax,            \* the host's limit on descriptors (EMFILE)
          Pids,               \* host process numbers, the server's is ServerPid
          ServerPid,
          Paths,              \* files that can be opened
          PidReuse,           \* may the host reuse a pid that still has an entry?
          Dup2Unused          \* do clients dup2 onto descriptors not in use?

ASSUME BsdAssumption ==
    /\ BSD_MAX_PROCESSES \in Nat \ {0}
    /\ NStd \in Nat \ {0}
    /\ BSD_MAX_FD \in Nat /\ BSD_MAX_FD >= NStd
    /\ HostMax \in Nat /\ HostMax >= 2 * NStd
    /\ Pids \subseteq Nat \ {0} /\ ServerPid \in Pids
    /\ PidReuse \in BOOLEAN /\ Dup2Unused \in BOOLEAN

VARIABLES procs,   \* process_table
          count,   \* _bsd_process_count, copied to process_count
          hostFd,  \* the host descriptor table: number -> open file or NoFile
          kids,    \* host pid -> "none", "alive" or "dead" (not waited for)
          turn     \* which half of the loop body comes next, or "host"
                  \* while a client's call waits inside the host's kernel

bsdVars == <<procs, count, hostFd, kids, turn>>

Slots == 0 .. BSD_MAX_PROCESSES - 1
Fds == 0 .. BSD_MAX_FD - 1
HostFds == 0 .. HostMax
NoFd == -1
NoFile == "closed"
Std(i) == <<"stdin", "stdout", "stderr">>[i + 1]
Files == {Std(i) : i \in 0 .. NStd - 1} \cup Paths \cup {"pipe"}

-----------------------------------------------------------------------------
(* The host's descriptor table. *)

LowestFree(h) ==
    IF \E n \in HostFds : h[n] = NoFile
    THEN CHOOSE n \in HostFds : h[n] = NoFile /\ \A m \in 0 .. n - 1 : h[m] # NoFile
    ELSE NoFd

\* open, dup and pipe all take the lowest free number.
HostOpened(h, f) == IF LowestFree(h) = NoFd THEN h ELSE [h EXCEPT ![LowestFree(h)] = f]
HostClosed(h, ns) == [n \in HostFds |-> IF n \in ns THEN NoFile ELSE h[n]]

-----------------------------------------------------------------------------
(* Descriptor entries.  "file" is a history field: the file the entry was  *)
(* opened for, which the code does not keep.                               *)

FreeEntry == [use |-> FALSE, host |-> NoFd, cloexec |-> FALSE, file |-> NoFile]
Entry(n, f, ce) == [use |-> TRUE, host |-> n, cloexec |-> ce, file |-> f]

\* bsd_fd_init dups the server's own standard descriptors in turn and does
\* not look at the results: at the host's limit an entry is in use with
\* host_fd -1.
bsd_fd_init(h) ==
    LET free == {n \in HostFds : h[n] = NoFile}
        nth[i \in 0 .. NStd - 1] ==   \* the number the i-th dup returns
            IF Cardinality(free) <= i THEN NoFd
            ELSE CHOOSE n \in free : Cardinality({m \in free : m < n}) = i
    IN  [host |-> [n \in HostFds |->
                      IF \E i \in 0 .. NStd - 1 : nth[i] = n
                      THEN h[CHOOSE i \in 0 .. NStd - 1 : nth[i] = n] ELSE h[n]],
         fd |-> [i \in Fds |-> IF i < NStd THEN Entry(nth[i], Std(i), FALSE) ELSE FreeEntry]]

bsd_fd_find_free(fd) ==
    IF \E i \in Fds : ~fd[i].use
    THEN CHOOSE i \in Fds : ~fd[i].use /\ \A j \in 0 .. i - 1 : fd[j].use
    ELSE NoFd

\* The test every descriptor call begins with (EBADF).
GoodFd(s, i) == i \in Fds /\ procs[s].fd[i].use

\* Mutant: the host descriptors are closed and the entries left in use.
DroppedKeepsEntries(fd, D) == [i \in Fds |-> fd[i]]

\* What exit, free and exec do to the entries in D: the host descriptor is
\* closed and in_use cleared, host_fd keeps its old number.  Only a dup2
\* onto the unused descriptor would read it, so it is kept for that case.
Dropped(fd, D) ==
    [i \in Fds |-> IF i \in D
                   THEN [fd[i] EXCEPT !.use = FALSE, !.file = NoFile,
                                      !.host = IF Dup2Unused THEN @ ELSE NoFd]
                   ELSE fd[i]]
Open(fd) == {i \in Fds : fd[i].use}
HostOf(fd, D) == {fd[i].host : i \in D}

-----------------------------------------------------------------------------
(* The process table.  The running flag is left out: it is the negation of  *)
(* zombie in every entry in use, since no signal is ever pending.          *)

FreeProc == [use |-> FALSE, pid |-> 0, ppid |-> 0, zombie |-> FALSE,
             fd |-> [i \in Fds |-> FreeEntry]]

NewProc(pid, ppid, fd) ==
    [use |-> TRUE, pid |-> pid, ppid |-> ppid, zombie |-> FALSE, fd |-> fd]

InUse == {s \in Slots : procs[s].use}
NoSlot == -1

bsd_process_lookup(pid) ==
    IF \E s \in InUse : procs[s].pid = pid
    THEN CHOOSE s \in InUse : procs[s].pid = pid
             /\ \A r \in InUse : procs[r].pid = pid => s <= r
    ELSE NoSlot

bsd_process_init ==
    LET t == bsd_fd_init([n \in HostFds |-> IF n < NStd THEN Std(n) ELSE NoFile])
    IN  /\ procs = [s \in Slots |->
                       IF s = 0 THEN NewProc(ServerPid, 0, t.fd) ELSE FreeProc]
        /\ hostFd = t.host
        /\ count = 1

\* bsd_process_alloc: the entry's parent is the server until fork corrects it.
bsd_process_alloc(pid, ppid) ==
    IF count >= BSD_MAX_PROCESSES \/ InUse = Slots
    THEN UNCHANGED <<procs, count, hostFd>>
    ELSE LET s == CHOOSE x \in Slots \ InUse : \A y \in Slots \ InUse : x <= y
             t == bsd_fd_init(hostFd)
         IN  /\ procs' = [procs EXCEPT ![s] = NewProc(pid, ppid, t.fd)]
             /\ hostFd' = t.host
             /\ count' = count + 1

\* bsd_process_free: the entry's Mach ports are not released.  What is left
\* in the slot is never read: bsd_process_alloc clears it.
bsd_process_free(s) ==
    LET fd == procs[s].fd
    IN  /\ procs' = [procs EXCEPT ![s] = FreeProc]
        /\ hostFd' = HostClosed(hostFd, HostOf(fd, Open(fd)))
        /\ count' = count - 1

-----------------------------------------------------------------------------
(* System calls; s is the slot of the caller. *)

\* An exit that leaves the host process alive: only the entry changes.  The
\* SIGCHLD sent to the parent is ignored by its default disposition.
bsd_syscall_exit(s) ==
    LET fd == procs[s].fd
    IN  /\ procs' = [procs EXCEPT ![s].zombie = TRUE, ![s].fd = Dropped(fd, Open(fd))]
        /\ hostFd' = HostClosed(hostFd, HostOf(fd, Open(fd)))
        /\ UNCHANGED <<count, kids>>

\* The host's fork succeeds and the parent's copy of the server adds an
\* entry; a full table is not reported to the caller.
bsd_syscall_fork(s) ==
    \E pid \in Pids :
        /\ kids[pid] = "none"
        /\ PidReuse \/ bsd_process_lookup(pid) = NoSlot
        /\ kids' = [kids EXCEPT ![pid] = "alive"]
        /\ bsd_process_alloc(pid, procs[s].pid)

\* The close-on-exec descriptors go before the program is looked at, and
\* stay closed when it is not executable.
bsd_syscall_exec(s) ==
    LET fd == procs[s].fd
        D == {i \in Open(fd) : fd[i].cloexec}
    IN  /\ procs' = [procs EXCEPT ![s].fd = Dropped(fd, D)]
        /\ hostFd' = HostClosed(hostFd, HostOf(fd, D))
        /\ UNCHANGED <<count, kids>>

Waitable(s, c) == procs[c].use /\ procs[c].ppid = procs[s].pid /\ procs[c].zombie

bsd_syscall_waitpid(s, pid) ==
    /\ \/ /\ pid = -1
          /\ \E c \in Slots : /\ Waitable(s, c)
                              /\ \A d \in 0 .. c - 1 : ~Waitable(s, d)
                              /\ bsd_process_free(c)
       \/ /\ pid # -1
          /\ bsd_process_lookup(pid) # NoSlot
          /\ Waitable(s, bsd_process_lookup(pid))
          /\ bsd_process_free(bsd_process_lookup(pid))
    /\ UNCHANGED kids

Put(s, i, e) == procs' = [procs EXCEPT ![s].fd[i] = e]

\* A free descriptor is found before the host is asked to open; fd_count is
\* not incremented.
bsd_fd_open(s, path, ce) ==
    LET i == bsd_fd_find_free(procs[s].fd)
        n == LowestFree(hostFd)
    IN  /\ i # NoFd /\ n # NoFd
        /\ hostFd' = HostOpened(hostFd, path)
        /\ Put(s, i, Entry(n, path, ce))
        /\ UNCHANGED <<count, kids>>

bsd_fd_close(s, i) ==
    /\ GoodFd(s, i)
    /\ hostFd' = HostClosed(hostFd, {procs[s].fd[i].host})
    /\ procs' = [procs EXCEPT ![s].fd[i] = [FreeEntry EXCEPT !.cloexec = procs[s].fd[i].cloexec]]
    /\ UNCHANGED <<count, kids>>

bsd_fd_dup(s, old) ==
    LET i == bsd_fd_find_free(procs[s].fd)
        e == procs[s].fd[old]
        n == LowestFree(hostFd)
    IN  /\ GoodFd(s, old) /\ i # NoFd /\ n # NoFd
        /\ e.host # NoFd
        /\ hostFd' = HostOpened(hostFd, hostFd[e.host])
        /\ Put(s, i, Entry(n, e.file, e.cloexec))
        /\ UNCHANGED <<count, kids>>

\* The host descriptor that dup2 overwrites is the one the entry last had,
\* even when that entry is no longer in use, or else the BSD number itself.
Dup2Target(s, new) ==
    IF procs[s].fd[new].host >= 0 THEN procs[s].fd[new].host ELSE new

bsd_fd_dup2(s, old, new) ==
    LET e == procs[s].fd[old]
        n == Dup2Target(s, new)
    IN  /\ GoodFd(s, old) /\ old # new
        /\ Dup2Unused \/ (GoodFd(s, new) /\ procs[s].fd[new].host >= 0)
        /\ e.host # NoFd /\ hostFd[e.host] # NoFile
        /\ hostFd' = [hostFd EXCEPT ![n] = hostFd[e.host]]
        /\ Put(s, new, Entry(n, e.file, e.cloexec))
        /\ UNCHANGED <<count, kids>>

\* Both ends are given the same descriptor: the second search runs before
\* the first slot is taken.  The read end stays open and unreachable.
bsd_fd_pipe(s) ==
    LET i == bsd_fd_find_free(procs[s].fd)
        r == LowestFree(hostFd)
        h == HostOpened(hostFd, "pipe")
        w == LowestFree(h)
    IN  /\ i # NoFd /\ r # NoFd /\ w # NoFd
        /\ hostFd' = HostOpened(h, "pipe")
        /\ Put(s, i, Entry(w, "pipe", procs[s].fd[i].cloexec))
        /\ UNCHANGED <<count, kids>>

\* read, write, lseek, ioctl, fcntl and fstat hand the host descriptor to
\* the host: what they answer is the file the host number stands for.
HostCall(s, i) ==
    IF GoodFd(s, i) /\ procs[s].fd[i].host # NoFd
    THEN hostFd[procs[s].fd[i].host] ELSE "EBADF"
bsd_fd_read(s, i) == HostCall(s, i)
bsd_fd_write(s, i) == HostCall(s, i)
bsd_fd_lseek(s, i) == HostCall(s, i)
bsd_fd_ioctl(s, i) == HostCall(s, i)
bsd_fd_fcntl(s, i) == HostCall(s, i)
bsd_fd_fstat(s, i) == HostCall(s, i)

\* select: the caller's set is translated to host numbers, and the ready
\* host numbers (a subset of those asked for) back to descriptors.
AskedHost(s, R) == {procs[s].fd[i].host : i \in {j \in R : procs[s].fd[j].use}} \ {NoFd}
bsd_fd_select(s, Ready) == {i \in Fds : procs[s].fd[i].use /\ procs[s].fd[i].host \in Ready}

\* kill goes straight to the host.
bsd_signal_kill(pid) ==
    /\ pid # ServerPid /\ kids[pid] = "alive"
    /\ kids' = [kids EXCEPT ![pid] = "dead"]
    /\ UNCHANGED <<procs, count, hostFd>>

-----------------------------------------------------------------------------
(* The loop. *)

\* Mutant: only children that still have an entry are waited for.
ReapKnownOnly ==
    LET dead == {p \in Pids : kids[p] = "dead" /\ bsd_process_lookup(p) # NoSlot}
        slot == [p \in dead |-> bsd_process_lookup(p)]
    IN  /\ kids' = [p \in Pids |-> IF p \in dead THEN "none" ELSE kids[p]]
        /\ procs' = [s \in Slots |->
               IF \E p \in dead : slot[p] = s
               THEN [procs[s] EXCEPT !.zombie = TRUE]
               ELSE procs[s]]
        /\ UNCHANGED <<count, hostFd>>

\* Every dead child is waited for; the entry it finds becomes a zombie.
bsd_process_reap ==
    LET dead == {p \in Pids : kids[p] = "dead"}
        slot == [p \in dead |-> bsd_process_lookup(p)]
    IN  /\ kids' = [p \in Pids |-> IF p \in dead THEN "none" ELSE kids[p]]
        /\ procs' = [s \in Slots |->
               IF \E p \in dead : slot[p] = s
               THEN [procs[s] EXCEPT !.zombie = TRUE]
               ELSE procs[s]]
        /\ UNCHANGED <<count, hostFd>>

\* Nothing sets signal_pending, so bsd_signal_deliver finds nothing to do.
ReapHalf ==
    /\ turn = "reap"
    /\ bsd_process_reap
    /\ turn' = "serve"

\* The calls that change state; a call that fails or only asks is a reply.
ProcessCalls(s) ==
    \/ bsd_syscall_exit(s)
    \/ bsd_syscall_fork(s)
    \/ bsd_syscall_exec(s)
    \/ \E pid \in Pids \cup {-1} : bsd_syscall_waitpid(s, pid)

DescriptorCalls(s) ==
    \/ \E p \in Paths, ce \in BOOLEAN : bsd_fd_open(s, p, ce)
    \/ \E i \in Fds : bsd_fd_close(s, i) \/ bsd_fd_dup(s, i)
    \/ \E i, j \in Fds : bsd_fd_dup2(s, i, j)
    \/ bsd_fd_pipe(s)

SignalCalls == \E pid \in Pids : bsd_signal_kill(pid)

bsd_syscall_dispatch(pid) ==
    LET s == bsd_process_lookup(pid)
    IN  /\ s # NoSlot
        /\ ProcessCalls(s) \/ DescriptorCalls(s) \/ SignalCalls

\* Any process with an entry may be the caller, a zombie too.
ServeHalf ==
    /\ turn = "serve"
    /\ \E pid \in Pids : bsd_syscall_dispatch(pid)
    /\ turn' = "reap"

\* No message, an unknown message or call, a call that fails, or one that
\* only asks the host: the server's state stays as it is.
IdleHalf == turn = "serve" /\ turn' = "reap" /\ UNCHANGED <<procs, count, hostFd, kids>>

\* read, write and select (with no timeout) of a client are made by the loop
\* itself, and the host may keep it waiting: for input, for room in a pipe.
BlockHalf ==
    /\ turn = "serve" /\ InUse # {}
    /\ turn' = "host"
    /\ UNCHANGED <<procs, count, hostFd, kids>>

\* The host answers, if ever (environment).
HostAnswers == turn = "host" /\ turn' = "reap" /\ UNCHANGED <<procs, count, hostFd, kids>>

\* A child ends by itself, at any moment (environment).
ChildDies ==
    \E p \in Pids \ {ServerPid} :
        /\ kids[p] = "alive"
        /\ kids' = [kids EXCEPT ![p] = "dead"]
        /\ UNCHANGED <<procs, count, hostFd, turn>>

BSInit ==
    /\ bsd_process_init
    /\ kids = [p \in Pids |-> IF p = ServerPid THEN "alive" ELSE "none"]
    /\ turn = "reap"

ServeTurn == ServeHalf \/ IdleHalf \/ BlockHalf
BSNext == ReapHalf \/ ServeTurn \/ HostAnswers \/ ChildDies

\* The loop turns; nothing obliges the host to answer.
BSSpec == BSInit /\ [][BSNext]_bsdVars /\ WF_bsdVars(ReapHalf) /\ WF_bsdVars(ServeTurn)
-----------------------------------------------------------------------------
(* Properties. *)

\* Every entry names host state of the right kind.
BSTypeOK ==
    /\ count \in 0 .. BSD_MAX_PROCESSES
    /\ hostFd \in [HostFds -> Files \cup {NoFile}]
    /\ kids \in [Pids -> {"none", "alive", "dead"}]
    /\ turn \in {"reap", "serve", "host"}
    /\ \A s \in Slots : procs[s].fd \in [Fds -> [use : BOOLEAN,
           host : HostFds \cup {NoFd}, cloexec : BOOLEAN, file : Files \cup {NoFile}]]

\* The two counters of processes agree with the table, so an entry is refused
\* exactly when the table is full, whatever exits, waits and forks happened.
ProcessCountExact == count = Cardinality(InUse)

\* A descriptor in use leads to the file it was opened for, or to nothing
\* when the host was out of descriptors: no call of any process closes or
\* replaces the host descriptor of another.
DescriptorsReachOwnFile ==
    \A s \in InUse, i \in Fds : procs[s].fd[i].use =>
        bsd_fd_read(s, i) \in {procs[s].fd[i].file, "EBADF"}

\* select reports no descriptor the caller did not ask about: the answer
\* is translated back from host numbers, so two descriptors must not share one.
SelectReportsAsked ==
    \A s \in InUse : \A R \in SUBSET Fds : bsd_fd_select(s, AskedHost(s, R)) \subseteq R

\* A child the host has let go of is a zombie in the table until its parent
\* waits for it: no exit is lost between the host and the process table.
DeadAreZombies ==
    \A s \in InUse : kids[procs[s].pid] = "none" => procs[s].zombie

\* Every host child that dies is reaped, whatever calls the clients make, as
\* long as the host answers every call that the loop makes for them: while a
\* client's read waits for ever, no child of any process is waited for.
ChildrenReaped ==
    []<>(turn # "host") => \A p \in Pids : kids[p] = "dead" ~> kids[p] = "none"
-----------------------------------------------------------------------------
(* What the server keeps per process about identity, directory and memory  *)
(* (bsd_process.c, bsd_fd.c, bsd_memory.c).  The server itself has one      *)
(* working directory, one break and one address space on the host, and     *)
(* every tracked process acts on those.                                    *)

CONSTANTS Owners,     \* processes with an entry, Kernel among them
          Kernel,
          Ids,        \* user numbers; 0 is the server's own
          Dirs, Home, \* directories, and the one the server starts in
          SbrkIncrs,  \* increments that clients pass to sbrk
          Top,        \* addresses are 0 .. Top - 1
          Word        \* and sizes are taken modulo Word (size_t)

ASSUME AccountAssumption ==
    /\ Kernel \in Owners /\ Home \in Dirs /\ 0 \in Ids
    /\ SbrkIncrs \subseteq Int /\ Top \in Nat \ {0} /\ Word \in Nat /\ Word > Top

VARIABLES acct,     \* owner -> entry, or NoAccount
          hostCwd, hostBrk,
          maps,     \* regions the host has mapped: [who, at, len]
          lowered   \* has a negative sbrk taken memory from the heap? (history)

accountVars == <<acct, hostCwd, hostBrk, maps, lowered>>

Places == 0 .. Top - 1
NULL == -1
NoAccount == [use |-> FALSE, uid |-> 0, gid |-> 0, cwd |-> Home, brk |-> 0,
              base |-> NULL, size |-> 0]
Tracked == {p \in Owners : acct[p].use}

\* bsd_memory_init: the break recorded is the server's break of the moment.
bsd_memory_init(a) == [a EXCEPT !.brk = hostBrk, !.base = NULL, !.size = 0]

\* The child takes its ids and directory from the parent, its break from
\* the server.
bsd_fork_inherits(p, c) ==
    /\ ~acct[c].use
    /\ acct' = [acct EXCEPT ![c] = bsd_memory_init(acct[p])]
    /\ UNCHANGED <<hostCwd, hostBrk, maps, lowered>>

\* The parent waits for the child: the entry goes, its mappings stay.
bsd_release(p) ==
    /\ p # Kernel
    /\ acct' = [acct EXCEPT ![p] = NoAccount]
    /\ maps' = {m \in maps : m.who # p} \cup {[m EXCEPT !.who = NULL] : m \in {x \in maps : x.who = p}}
    /\ UNCHANGED <<hostCwd, hostBrk, lowered>>

bsd_syscall_setuid(p, u) ==
    acct' = [acct EXCEPT ![p].uid = u] /\ UNCHANGED <<hostCwd, hostBrk, maps, lowered>>

bsd_syscall_setgid(p, g) ==
    acct' = [acct EXCEPT ![p].gid = g] /\ UNCHANGED <<hostCwd, hostBrk, maps, lowered>>

bsd_fd_chdir(p, d) ==
    /\ hostCwd' = d
    /\ acct' = [acct EXCEPT ![p].cwd = d]
    /\ UNCHANGED <<hostBrk, maps, lowered>>

\* brk moves the server's break up when it must, never down.
bsd_memory_brk(p, addr) ==
    /\ addr # 0
    /\ hostBrk' = IF addr > hostBrk THEN addr ELSE hostBrk
    /\ acct' = [acct EXCEPT ![p].brk = addr]
    /\ UNCHANGED <<hostCwd, maps, lowered>>

\* sbrk takes a signed increment and moves the one break of the server: a
\* negative one takes the memory of every process that reached higher.
bsd_memory_sbrk(p, incr) ==
    /\ hostBrk + incr \in Places
    /\ hostBrk' = hostBrk + incr
    /\ lowered' = (lowered \/ incr < 0)
    /\ acct' = [acct EXCEPT ![p].brk = hostBrk + incr]
    /\ UNCHANGED <<hostCwd, maps>>

Region(m) == m.at .. m.at + m.len - 1

\* The host chooses where; the entry's extent grows to cover the region when
\* it ends above it.  Sizes wrap (size_t) when the region lies below the base.
bsd_memory_mmap(p, at, len) ==
    LET a == acct[p]
        total == (at + len - a.base) % Word
    IN  /\ at + len <= Top
        /\ \A m \in maps : Region(m) \cap (at .. at + len - 1) = {}
        /\ maps' = maps \cup {[who |-> p, at |-> at, len |-> len]}
        /\ acct' = IF a.base = NULL
                   THEN [acct EXCEPT ![p].base = at, ![p].size = len]
                   ELSE IF total > a.size THEN [acct EXCEPT ![p].size = total] ELSE acct
        /\ UNCHANGED <<hostCwd, hostBrk, lowered>>

\* The recorded extent is not shrunk.
bsd_memory_munmap(m) ==
    /\ maps' = maps \ {m}
    /\ UNCHANGED <<acct, hostCwd, hostBrk, lowered>>

BAInit ==
    /\ acct = [p \in Owners |-> IF p = Kernel THEN [NoAccount EXCEPT !.use = TRUE] ELSE NoAccount]
    /\ hostCwd = Home /\ hostBrk = 0 /\ maps = {} /\ lowered = FALSE

BANext ==
    \/ \E p \in Tracked, c \in Owners : bsd_fork_inherits(p, c)
    \/ \E p \in Tracked : bsd_release(p)
    \/ \E p \in Tracked, u \in Ids : bsd_syscall_setuid(p, u) \/ bsd_syscall_setgid(p, u)
    \/ \E p \in Tracked, d \in Dirs : bsd_fd_chdir(p, d)
    \/ \E p \in Tracked, a \in Places : bsd_memory_brk(p, a)
    \/ \E p \in Tracked, i \in SbrkIncrs : bsd_memory_sbrk(p, i)
    \/ \E p \in Tracked, a \in Places, n \in 1 .. 2 : bsd_memory_mmap(p, a, n)
    \/ \E m \in maps : bsd_memory_munmap(m)

BASpec == BAInit /\ [][BANext]_accountVars

-----------------------------------------------------------------------------
\* Entries stay within the values the calls can give them.
BATypeOK ==
    /\ acct \in [Owners -> [use : BOOLEAN, uid : Ids, gid : Ids, cwd : Dirs,
                            brk : Places, base : Places \cup {NULL}, size : 0 .. Word]]
    /\ hostCwd \in Dirs /\ hostBrk \in Places /\ lowered \in BOOLEAN
    /\ \A m \in maps : m.who \in Owners \cup {NULL}

\* Until some process gives memory back with a negative sbrk, no process's
\* break lies above the server's: the memory below it is there, although all
\* processes share one heap, move its end in any order, and fork and exit.
BreakCovered == ~lowered => \A p \in Tracked : acct[p].brk <= hostBrk

\* Every mapping of a process that lies above its first one is inside the
\* extent the entry records, in spite of the unsigned arithmetic.
MapsCovered ==
    \A m \in maps : m.who \in Tracked /\ m.at >= acct[m.who].base =>
        m.at + m.len <= acct[m.who].base + acct[m.who].size
=============================================================================
