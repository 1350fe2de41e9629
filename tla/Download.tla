------------------------------ MODULE Download ------------------------------
(***************************************************************************)
(* download_model_from_url of src/src/download.rs: processes that fetch    *)
(* the same model into the same directory, with transfers that fail, end   *)
(* early or carry wrong bytes, and processes killed at any step.  The      *)
(* directory has two names, `part` and `final`; a name refers to a file,   *)
(* and an open descriptor keeps its file when the name moves or goes.      *)
(***************************************************************************)
EXTENDS Naturals, Sequences

CONSTANTS
    Processes,   \* invocations of the program that share a data directory
    Files,       \* identities for files (inodes)
    Chunks,      \* chunks in the expected file (a transfer may carry one more)
    NoFile       \* what an absent name refers to

ASSUME DownloadAssumption == Chunks \in Nat \ {0} /\ NoFile \notin Files

VARIABLES
    content,   \* of every file: the chunks at each offset
    part,      \* the file at <filename>.part
    final,     \* the file at the final path
    pc,        \* where a process is
    fd,        \* the file a process writes to
    stream     \* the chunks a process has received (and hashed)

vars == <<content, part, final, pc, fd, stream>>
disk == <<content, part, final>>

\* A chunk is "right" as the server meant it, or "wrong"; an offset nobody wrote
\* yet is a "hole".
Whole == [i \in 1 .. Chunks |-> "right"]

Corrupt == [i \in 1 .. Chunks |-> "wrong"]

\* compute_sha256 tells only the expected content from any other.
Matches(bytes) == bytes = Whole

InUse == {part, final} \cup {fd[p] : p \in Processes}

\* Write a chunk at an offset; a gap before it reads as a hole.
Overwrite(bytes, at, chunk) ==
    [i \in 1 .. (IF Len(bytes) < at THEN at ELSE Len(bytes)) |->
        IF i = at THEN chunk
        ELSE IF i <= Len(bytes) THEN bytes[i] ELSE "hole"]

\* A new process may find nothing, a good file, a corrupt one or a stale part.
Init ==
    /\ part \in {NoFile} \cup Files
    /\ final \in {NoFile} \cup Files
    /\ part = final => part = NoFile
    /\ content \in [Files -> {<< >>, <<"wrong">>, Corrupt, Whole}]
    /\ \A f \in Files : f \notin {part, final} => content[f] = << >>
    /\ pc = [p \in Processes |-> "idle"]
    /\ fd = [p \in Processes |-> NoFile]
    /\ stream = [p \in Processes |-> << >>]

At(p, from, to) == pc[p] = from /\ pc' = [pc EXCEPT ![p] = to]

\* --force skips the file that is there.
Start(p) ==
    /\ pc[p] = "idle"
    /\ \/ pc' = [pc EXCEPT ![p] = "get"]
       \/ /\ pc' = [pc EXCEPT ![p] = IF final = NoFile THEN "get" ELSE "size"]
    /\ UNCHANGED <<disk, fd, stream>>

\* The size, then the digest of the existing file; a mismatch downloads again,
\* a file that is gone in the meantime is an error.
CheckSize(p) ==
    /\ pc[p] = "size"
    /\ pc' = [pc EXCEPT ![p] =
                 IF final = NoFile THEN "err"
                 ELSE IF Len(content[final]) = Chunks THEN "hash" ELSE "get"]
    /\ UNCHANGED <<disk, fd, stream>>

\* Mutant: the size alone is taken for a verified file.
CheckSizeOnly(p) ==
    /\ pc[p] = "hash"
    /\ pc' = [pc EXCEPT ![p] = IF final = NoFile THEN "err" ELSE "ok"]
    /\ UNCHANGED <<disk, fd, stream>>

CheckHash(p) ==
    /\ pc[p] = "hash"
    /\ pc' = [pc EXCEPT ![p] =
                 IF final = NoFile THEN "err"
                 ELSE IF Matches(content[final]) THEN "ok" ELSE "get"]
    /\ UNCHANGED <<disk, fd, stream>>

Get(p) ==
    /\ At(p, "get", "clean") \/ At(p, "get", "err")
    /\ UNCHANGED <<disk, fd, stream>>

\* A failed removal is ignored.
RemoveStale(p) ==
    /\ At(p, "clean", "create")
    /\ part' \in {part, NoFile}
    /\ UNCHANGED <<content, final, fd, stream>>

\* Mutant: the part is opened for writing but not truncated.
CreateWithoutTruncate(p) ==
    /\ At(p, "create", "receive")
    /\ part' \in IF part = NoFile THEN Files \ InUse ELSE {part}
    /\ fd' = [fd EXCEPT ![p] = part']
    /\ content' = IF part = NoFile THEN [content EXCEPT ![part'] = << >>]
                                   ELSE content
    /\ stream' = [stream EXCEPT ![p] = << >>]
    /\ UNCHANGED final

\* File::create: an existing file is truncated, whoever writes to it.
Create(p) ==
    /\ At(p, "create", "receive")
    /\ part' \in IF part = NoFile THEN Files \ InUse ELSE {part}
    /\ fd' = [fd EXCEPT ![p] = part']
    /\ content' = [content EXCEPT ![part'] = << >>]
    /\ stream' = [stream EXCEPT ![p] = << >>]
    /\ UNCHANGED final

Receive(p) ==
    /\ pc[p] = "receive"
    /\ Len(stream[p]) <= Chunks
    /\ \E chunk \in {"right", "wrong"} :
          /\ stream' = [stream EXCEPT ![p] = Append(@, chunk)]
          /\ content' = [content EXCEPT ![fd[p]] =
                            Overwrite(@, Len(stream[p]) + 1, chunk)]
    /\ UNCHANGED <<part, final, pc, fd>>

\* The body ends, early or not.
EndOfStream(p) ==
    /\ At(p, "receive", "seal")
    /\ UNCHANGED <<disk, fd, stream>>

\* The connection breaks, or a write, flush or sync fails: `?` leaves the part.
BreakOff(p) ==
    /\ At(p, "receive", "err") \/ At(p, "seal", "err")
    /\ fd' = [fd EXCEPT ![p] = NoFile]
    /\ UNCHANGED <<disk, stream>>

Seal(p) ==
    /\ At(p, "seal", "digest")
    /\ fd' = [fd EXCEPT ![p] = NoFile]
    /\ UNCHANGED <<disk, stream>>

\* Mutant: a complete transfer is taken for a good one.
DigestByLength(p) ==
    /\ \/ /\ Len(stream[p]) = Chunks
          /\ At(p, "digest", "rename")
          /\ UNCHANGED part
       \/ /\ Len(stream[p]) # Chunks
          /\ At(p, "digest", "err")
          /\ part' = NoFile
    /\ UNCHANGED <<content, final, fd, stream>>

\* The digest is that of the received chunks.  A mismatch removes the part.
Digest(p) ==
    /\ \/ /\ Matches(stream[p])
          /\ At(p, "digest", "rename")
          /\ UNCHANGED part
       \/ /\ ~Matches(stream[p])
          /\ At(p, "digest", "err")
          /\ part' = NoFile
    /\ UNCHANGED <<content, final, fd, stream>>

\* rename moves whatever file has the name now; it fails if there is none.
Rename(p) ==
    /\ \/ At(p, "rename", "err") /\ UNCHANGED <<part, final>>
       \/ /\ part # NoFile
          /\ At(p, "rename", "ok")
          /\ final' = part /\ part' = NoFile
    /\ UNCHANGED <<content, fd, stream>>

\* The call returned, or the process was killed; another one may follow.
Leave(p) ==
    /\ pc[p] # "idle"
    /\ pc' = [pc EXCEPT ![p] = "idle"]
    /\ fd' = [fd EXCEPT ![p] = NoFile]
    /\ stream' = [stream EXCEPT ![p] = << >>]
    /\ UNCHANGED disk

Fetch(p) ==
    \/ CheckSize(p) \/ CheckHash(p) \/ Get(p) \/ RemoveStale(p) \/ Create(p)
    \/ Receive(p) \/ EndOfStream(p) \/ BreakOff(p) \/ Seal(p) \/ Digest(p)
    \/ Rename(p)

Next == \E p \in Processes : Start(p) \/ Fetch(p) \/ Leave(p)

Spec == Init /\ [][Next]_vars

-----------------------------------------------------------------------------

\* The digest of the stream vouches for the file: what was received and hashed
\* is what the part holds when it is renamed, whatever an earlier, killed run
\* left under that name.
HashedIsWritten ==
    \A p \in Processes :
       /\ pc[p] \in {"receive", "seal"} => content[fd[p]] = stream[p]
       /\ pc[p] \in {"digest", "rename"} =>
             part # NoFile /\ content[part] = stream[p]

\* A call that returns Ok leaves a whole, verified file at the final path.
OkMeansWhole ==
    \A p \in Processes :
       pc[p] = "ok" => final # NoFile /\ Matches(content[final])

\* The final path changes in one step, from what was there to a whole file, and
\* a file under the final path is never written to: a reader, or a run after a
\* kill at any point, never finds a half-written model.
FinalOnlyReplacedWhole ==
    [][/\ final' # final => final' # NoFile /\ Matches(content'[final'])
       /\ final' = final /\ final # NoFile => content'[final] = content[final]
      ]_vars
=============================================================================
