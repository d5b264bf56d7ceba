------------------------------- MODULE FileOps -------------------------------
(***************************************************************************)
(* File operations on the login node (stub.py: op_ls ... op_follow), the   *)
(* client's gates before them (cluster.py) and the synchronisation of a    *)
(* project (sync.py).  Worker threads of stubs work on one directory, with *)
(* no lock between them.  A file is the inode its name leads to: a writer  *)
(* fills a temporary file beside it and renames that, an append goes into  *)
(* the inode it opened, and a reader reads on from the inode it opened.    *)
(* Modes, sizes and symbolic links are left out.                           *)
(***************************************************************************)
EXTENDS Naturals, Sequences, FiniteSets, Functions

CONSTANTS Workers,  \* worker threads, of one stub or several
          Files,    \* the files of the directory: odd numbers, in the order of their names
          Inodes,   \* positive numbers
          MaxOps    \* bound: operations asked for

VARIABLES file,     \* the inode a name leads to, 0 for none
          inode,    \* their contents, in pieces
          debris,   \* temporary files of writers that died
          worker,   \* the operations
          asked

fileVars == <<file, inode, debris, worker, asked>>

\* Two pieces of one writer belong together.
NEXT_PIECE == [old |-> "rest", new |-> "rest", w1 |-> "w2", s1 |-> "s2"]
IsWhole(data) ==
  /\ \A i \in 1..Len(data) : data[i] \in DOMAIN NEXT_PIECE => i < Len(data) /\ data[i + 1] = NEXT_PIECE[data[i]]
  /\ data = <<>> \/ data[1] \notin {"rest", "w2", "s2"}

TmpOf(n) == n + 1
Idle == [pc |-> "idle", op |-> "none", name |-> 0, fd |-> 0, buf |-> <<>>,
         listed |-> {}, steady |-> {}, token |-> 0, todo |-> {}, told |-> "nothing"]

FileInit ==
  /\ file \in [Files -> {0, 1}]
  /\ Cardinality({n \in Files : file[n] = 1}) = 1
  /\ inode = [i \in Inodes |-> IF i = 1 THEN <<"old", "rest">> ELSE <<>>]
  /\ debris = {}
  /\ worker = [c \in Workers |-> Idle]
  /\ asked = 0

------------------------------------------------------------------------------
(* The directory *)

TmpsOf(w) == {TmpOf(w[c].name) : c \in {k \in Workers : w[k].pc = "fill"}}
EntriesOf(f, w, d) == {n \in Files : f[n] # 0} \union TmpsOf(w) \union d
Entries == EntriesOf(file, worker, debris)

\* Inodes nothing leads to are free, and empty.  Where there is none the
\* operation fails.
Tidied(f, w, data) ==
  [i \in Inodes |-> IF (\E n \in Files : f[n] = i) \/ (\E c \in Workers : w[c].fd = i) THEN data[i] ELSE <<>>]
Free == {i \in Inodes : (\A n \in Files : file[n] # i) /\ (\A c \in Workers : worker[c].fd # i)}
FreeInode == CHOOSE i \in Free : TRUE

\* What every step does to the directory, the inodes and the listings under
\* way: a listing counts on the names that were there all the time.
Step(c, p, f, data, d) ==
  LET w == [worker EXCEPT ![c] = p]
      there == EntriesOf(f, w, d)
  IN  /\ file' = f
      /\ debris' = d
      /\ worker' = [k \in Workers |->
           IF w[k].pc # "listing" THEN w[k]
           ELSE IF Entries \subseteq there THEN w[k]
           ELSE [w[k] EXCEPT !.steady = {}]]
      /\ inode' = Tidied(f, w, data)

Goes(c, p) == Step(c, p, file, inode, debris)
Ends(c, told, data) == [Idle EXCEPT !.told = told, !.buf = data]

Asked(c) == worker[c].pc = "idle" /\ asked < MaxOps /\ asked' = asked + 1
Working == UNCHANGED asked

\* Protected paths, confirmation, the shape of the arguments: refused before
\* anything happens.
Refused(c) == Asked(c) /\ Goes(c, Ends(c, "refused", <<>>))

\* The stub dies, or the request's disk fails: a temporary file stays behind in
\* the one case, and is removed in the other.
Dies(c) ==
  /\ worker[c].pc # "idle"
  /\ Step(c, Idle, file, inode, IF worker[c].pc = "fill" THEN debris \union {TmpOf(worker[c].name)} ELSE debris)
  /\ Working

Fails(c) ==
  /\ worker[c].pc # "idle"
  /\ Goes(c, Ends(c, "error", <<>>))
  /\ Working

------------------------------------------------------------------------------
(* Reading: op_read, op_diff, op_follow, and op_edit's first half *)

Open(c, op, n) ==
  /\ Asked(c)
  /\ file[n] # 0
  /\ Goes(c, [Idle EXCEPT !.pc = "reading", !.op = op, !.name = n, !.fd = file[n]])

ReadOn(c) ==
  LET p == worker[c] IN
  /\ p.pc = "reading"
  /\ Len(p.buf) < Len(inode[p.fd])
  /\ Goes(c, [p EXCEPT !.buf = Append(@, inode[p.fd][Len(@) + 1])])
  /\ Working

AtEnd(c) == worker[c].pc = "reading" /\ Len(worker[c].buf) >= Len(inode[worker[c].fd])

\* A follower stays at the end, until it is idle too long or cancelled: a file
\* renamed over the one it opened it never sees.
EndRead(c) ==
  /\ AtEnd(c)
  /\ worker[c].op \in {"read", "follow"}
  /\ Goes(c, Ends(c, "read", worker[c].buf))
  /\ Working

\* The text to replace must be there as often as it was expected.
op_edit(c) ==
  LET p == worker[c] IN
  /\ AtEnd(c)
  /\ p.op = "edit"
  /\ IF "old" \in Range(p.buf)
       THEN Goes(c, [p EXCEPT !.pc = "tmp", !.fd = 0,
                              !.buf = [i \in DOMAIN @ |-> IF @[i] = "old" THEN "new" ELSE @[i]]])
       ELSE Goes(c, Ends(c, "refused", <<>>))
  /\ Working

------------------------------------------------------------------------------
(* Writing: op_write, op_edit's second half, and op_rm *)

op_write(c, n) ==
  /\ Asked(c)
  /\ Goes(c, [Idle EXCEPT !.pc = "tmp", !.op = "write", !.name = n, !.buf = <<"w1", "w2">>])

\* A bug: the file itself is opened for writing.
InPlace(c) == IF file[worker[c].name] # 0 THEN file[worker[c].name] ELSE FreeInode

\* _atomic_write fills a file of its own beside the file.
Target(c) == FreeInode

_atomic_write(c) ==
  LET p == worker[c] IN
  /\ \/ p.pc = "tmp" /\ Free # {}
        /\ LET i == Target(c) IN
           Step(c, [p EXCEPT !.pc = "fill", !.fd = i], file, [inode EXCEPT ![i] = <<>>], debris)
     \/ p.pc = "fill" /\ p.buf # <<>>
        /\ Step(c, [p EXCEPT !.buf = Tail(@)], file, [inode EXCEPT ![p.fd] = Append(@, Head(p.buf))], debris)
     \/ p.pc = "fill" /\ p.buf = <<>>
        /\ Step(c, [p EXCEPT !.pc = "mode"], [file EXCEPT ![p.name] = p.fd], inode, debris)
     \/ p.pc = "mode"  \* chmod, by name: the rename stands if it fails
        /\ Goes(c, Ends(c, IF file[p.name] = 0 THEN "error" ELSE "written", <<>>))
  /\ Working

\* An append opens the inode, or makes one, and adds to it in one piece: it is
\* lost when the name is led elsewhere in between.
OpenAppend(c, n) ==
  LET i == IF file[n] = 0 THEN FreeInode ELSE file[n] IN
  /\ Asked(c)
  /\ file[n] # 0 \/ Free # {}
  /\ Step(c, [Idle EXCEPT !.pc = "append", !.op = "append", !.name = n, !.fd = i],
          [file EXCEPT ![n] = i], inode, debris)

DoAppend(c) ==
  LET p == worker[c] IN
  /\ p.pc = "append"
  /\ Step(c, Ends(c, "written", <<>>), file, [inode EXCEPT ![p.fd] = Append(@, "a")], debris)
  /\ Working

\* One file; or, recursively, one after the other what the walk finds, and
\* refused at the end when something came after it.
op_rm(c, ns) ==
  /\ Asked(c)
  /\ ns # {}
  /\ ns \subseteq {n \in Files : file[n] # 0}
  /\ Goes(c, [Idle EXCEPT !.pc = "removing", !.op = "rm", !.todo = ns])

RemoveOne(c) ==
  LET p == worker[c] IN
  /\ p.pc = "removing"
  /\ IF p.todo = {} THEN Goes(c, Ends(c, "removed", <<>>))
     ELSE LET n == CHOOSE n \in p.todo : TRUE IN
          Step(c, [p EXCEPT !.todo = @ \ {n}], [file EXCEPT ![n] = 0], inode, debris)
  /\ Working

------------------------------------------------------------------------------
(* Listing: op_ls by pages *)

op_ls(c) ==
  /\ Asked(c)
  /\ Goes(c, [Idle EXCEPT !.pc = "listing", !.op = "ls", !.steady = Entries])

NamesFrom(token) == {n \in Entries : Cardinality({m \in Entries : m < n}) >= token}

\* Every page sorts the names anew, and the token is the place to go on from.
\* A page is one name long.
ListPage(c) ==
  LET p == worker[c]
      rest == NamesFrom(p.token)
      page == {n \in rest : \A m \in rest : n <= m}
  IN  /\ p.pc = "listing"
      /\ IF rest \subseteq page
           THEN Goes(c, [Ends(c, "listed", <<>>) EXCEPT !.listed = p.listed \union page, !.steady = p.steady])
           ELSE Goes(c, [p EXCEPT !.listed = @ \union page, !.token = @ + 1])
      /\ Working

------------------------------------------------------------------------------
(* Synchronisation *)

\* The dry run may refuse, and does not when it fails itself.
sync(c, ns) ==
  /\ Asked(c)
  /\ Goes(c, [Idle EXCEPT !.pc = "pushing", !.op = "sync", !.todo = ns])

\* rsync renames each file into place, and may end or be ended anywhere.
Push(c, n) ==
  LET p == worker[c] IN
  /\ p.pc = "pushing"
  /\ n \in p.todo
  /\ Free # {}
  /\ Step(c, [p EXCEPT !.todo = @ \ {n}, !.pc = IF p.todo = {n} THEN "marking" ELSE @],
          [file EXCEPT ![n] = FreeInode], [inode EXCEPT ![FreeInode] = <<"s1", "s2">>], debris)
  /\ Working

\* Only then the marker is written, into a file of its own.
WriteMarker(c) ==
  /\ worker[c].pc = "marking"
  /\ Goes(c, Ends(c, "written", <<>>))
  /\ Working

FileNext ==
  \E c \in Workers :
    \/ Refused(c) \/ Dies(c) \/ Fails(c) \/ ReadOn(c) \/ EndRead(c) \/ op_edit(c)
    \/ _atomic_write(c) \/ DoAppend(c) \/ RemoveOne(c) \/ op_ls(c) \/ ListPage(c) \/ WriteMarker(c)
    \/ \E n \in Files : \/ op_write(c, n) \/ OpenAppend(c, n) \/ Push(c, n)
                        \/ \E op \in {"read", "follow", "edit"} : Open(c, op, n)
    \/ \E ns \in SUBSET Files : op_rm(c, ns) \/ (ns # {} /\ sync(c, ns))

------------------------------------------------------------------------------
(* Properties *)

\* A name never leads to half a version, and no reader gets one: not while a
\* file is written, edited, appended to, removed or synchronised, nor after any
\* of these was cut short.
WholeVersions ==
  /\ \A n \in Files : file[n] # 0 => IsWhole(inode[file[n]])
  /\ \A c \in Workers : worker[c].told = "read" => IsWhole(worker[c].buf)

\* A listing by pages names everything that was there all the time, unless some
\* name went away during it.
ListedWhole ==
  \A c \in Workers : worker[c].told = "listed" => worker[c].steady \subseteq worker[c].listed
==============================================================================
