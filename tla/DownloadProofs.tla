---------------------------- MODULE DownloadProofs ----------------------------
(***************************************************************************)
(* Proofs about Download with one process at a time, killed and started    *)
(* again at any step, for every length of the expected file and any number *)
(* of files: the final path only ever changes to a whole, verified file.   *)
(* (With two processes this is false, see the run DownloadTwice.)          *)
(***************************************************************************)
EXTENDS Download, SequenceTheorems, TLAPS

OneProcess == \A p, q \in Processes : p = q

(***************************************************************************)
(* The inductive invariant: the part is not the final file, a process that *)
(* writes has it open, and what it holds is what was received; a rename is *)
(* only tried when that is the whole file.                                 *)
(***************************************************************************)
Pcs == {"idle", "size", "hash", "get", "clean", "create", "receive", "seal",
        "digest", "rename", "ok", "err"}
Bytes == Seq({"right", "wrong", "hole"})

Domains ==
    /\ content \in [Files -> Bytes]
    /\ part \in Files \cup {NoFile} /\ final \in Files \cup {NoFile}
    /\ pc \in [Processes -> Pcs]
    /\ fd \in [Processes -> Files \cup {NoFile}]
    /\ stream \in [Processes -> Bytes]

NamesApart == part = final => part = NoFile

PartIsStream ==
    \A p \in Processes :
       /\ pc[p] \in {"receive", "seal", "digest", "rename"} =>
             part # NoFile /\ content[part] = stream[p]
       /\ pc[p] \in {"receive", "seal"} => fd[p] = part
       /\ pc[p] = "rename" => Matches(stream[p])

DInv == Domains /\ NamesApart /\ PartIsStream /\ OkMeansWhole

\* Writing right behind the end appends.
LEMMA OverwriteAppends ==
    ASSUME NEW s \in Bytes, NEW c \in {"right", "wrong", "hole"}
    PROVE  Overwrite(s, Len(s) + 1, c) = Append(s, c)
  <1> DEFINE D == {"right", "wrong", "hole"}
             o == [i \in 1 .. Len(s) + 1 |-> IF i = Len(s) + 1 THEN c ELSE s[i]]
  <1>1. s \in Seq(D) /\ Len(s) \in Nat /\ Len(s) < Len(s) + 1
    BY DEF Bytes
  <1>2. Overwrite(s, Len(s) + 1, c) = o
    BY <1>1 DEF Overwrite
  <1>3. o \in Seq(D) /\ Len(o) = Len(s) + 1
    <2>1. \A i \in 1 .. Len(s) : s[i] \in D
      BY <1>1, ElementOfSeq
    <2>2. \A i \in 1 .. Len(s) + 1 : o[i] \in D
      BY <1>1, <2>1
    <2> QED
      BY <1>1, <2>2, SeqDef
  <1>4. /\ Append(s, c) \in Seq(D) /\ Len(Append(s, c)) = Len(s) + 1
        /\ \A i \in 1 .. Len(s) : Append(s, c)[i] = s[i]
        /\ Append(s, c)[Len(s) + 1] = c
    BY <1>1, AppendProperties
  <1>5. \A i \in 1 .. Len(o) : o[i] = Append(s, c)[i]
    BY <1>1, <1>3, <1>4
  <1>6. o = Append(s, c)
    <2> HIDE DEF o, D
    <2> QED
      BY <1>3, <1>4, <1>5, SeqEqual
  <1> QED
    BY <1>2, <1>6

LEMMA DInvInit == Init => DInv
  <1> SUFFICES ASSUME Init PROVE DInv
    OBVIOUS
  <1>1. Domains
    <2>1. /\ << >> \in Bytes /\ <<"wrong">> \in Bytes
          /\ Corrupt \in Bytes /\ Whole \in Bytes
      BY DownloadAssumption DEF Bytes, Corrupt, Whole
    <2> QED
      BY <2>1 DEF Init, Domains, Pcs
  <1>2. NamesApart /\ PartIsStream /\ OkMeansWhole
    BY DEF Init, NamesApart, PartIsStream, OkMeansWhole
  <1> QED
    BY <1>1, <1>2 DEF DInv

(***************************************************************************)
(* Each step preserves the invariant and does to the final path what it    *)
(* may.                                                                    *)
(***************************************************************************)
FinalKept ==
    /\ final' # final => final' # NoFile /\ Matches(content'[final'])
    /\ final' = final /\ final # NoFile => content'[final] = content[final]

\* Steps that leave the directory and what is written alone.
LEMMA QuietKeeps ==
    ASSUME DInv, OneProcess, NEW p \in Processes,
           Start(p) \/ CheckSize(p) \/ CheckHash(p) \/ Get(p) \/ EndOfStream(p)
             \/ BreakOff(p) \/ Seal(p) \/ Leave(p)
    PROVE  DInv' /\ FinalKept
  <1> USE DEF At
  <1>0. UNCHANGED <<content, part, final>>
    BY DEF Start, CheckSize, CheckHash, Get, EndOfStream, BreakOff, Seal, Leave, disk
  <1>1. \A q \in Processes : q = p
    BY DEF OneProcess
  <1>2. /\ pc \in [Processes -> Pcs] /\ fd \in [Processes -> Files \cup {NoFile}]
        /\ stream \in [Processes -> Bytes] /\ << >> \in Bytes
    BY DEF DInv, Domains, Bytes
  <1>3. Domains'
    <2>1. pc' \in [Processes -> Pcs]
      BY <1>2 DEF Start, CheckSize, CheckHash, Get, EndOfStream, BreakOff, Seal, Leave, Pcs
    <2>2. fd' \in [Processes -> Files \cup {NoFile}] /\ stream' \in [Processes -> Bytes]
      BY <1>2 DEF Start, CheckSize, CheckHash, Get, EndOfStream, BreakOff, Seal, Leave
    <2> QED
      BY <1>0, <2>1, <2>2 DEF DInv, Domains
  <1>4. /\ pc'[p] = "seal" => pc[p] = "receive" /\ fd'[p] = fd[p] /\ stream' = stream
        /\ pc'[p] = "digest" => pc[p] = "seal" /\ stream' = stream
        /\ pc'[p] \notin {"receive", "rename"}
        /\ pc'[p] = "ok" => final # NoFile /\ Matches(content[final])
    BY <1>2 DEF Start, CheckSize, CheckHash, Get, EndOfStream, BreakOff, Seal, Leave
  <1>5. NamesApart' /\ FinalKept
    BY <1>0 DEF DInv, NamesApart, FinalKept
  <1>6. PartIsStream'
    BY <1>0, <1>1, <1>4 DEF DInv, PartIsStream
  <1>7. OkMeansWhole'
    BY <1>0, <1>1, <1>4 DEF OkMeansWhole, Matches, Whole
  <1> QED
    BY <1>3, <1>5, <1>6, <1>7 DEF DInv

LEMMA RemoveKeeps ==
    ASSUME DInv, OneProcess, NEW p \in Processes, RemoveStale(p) \/ Digest(p)
    PROVE  DInv' /\ FinalKept
  <1> USE DEF At
  <1>1. \A q \in Processes : q = p
    BY DEF OneProcess
  <1>2. /\ UNCHANGED <<content, final, fd, stream>> /\ part' \in {part, NoFile}
        /\ \/ pc[p] = "clean" /\ pc' = [pc EXCEPT ![p] = "create"]
           \/ /\ pc[p] = "digest" /\ pc' = [pc EXCEPT ![p] = "rename"]
              /\ part' = part /\ Matches(stream[p])
           \/ pc[p] = "digest" /\ pc' = [pc EXCEPT ![p] = "err"]
    BY DEF RemoveStale, Digest
  <1>3. Domains'
    BY <1>2 DEF DInv, Domains, Pcs
  <1>4. pc'[p] \in {"create", "rename", "err"}
          /\ (pc'[p] = "rename" => pc[p] = "digest" /\ part' = part /\ Matches(stream[p]))
    BY <1>2 DEF DInv, Domains
  <1>5. NamesApart' /\ FinalKept
    BY <1>2 DEF DInv, NamesApart, FinalKept
  <1>6. PartIsStream' /\ OkMeansWhole'
    BY <1>1, <1>2, <1>4 DEF DInv, PartIsStream, OkMeansWhole, Matches, Whole
  <1> QED
    BY <1>3, <1>5, <1>6 DEF DInv

\* A new part is a file nobody has; one that is there is not the final file.
LEMMA CreateKeeps ==
    ASSUME DInv, OneProcess, NEW p \in Processes, Create(p)
    PROVE  DInv' /\ FinalKept
  <1>1. \A q \in Processes : q = p
    BY DEF OneProcess
  <1>2. /\ part' \in Files /\ part' # final /\ part' # NoFile
    BY DownloadAssumption DEF Create, DInv, Domains, NamesApart, InUse
  <1>3. /\ pc' = [pc EXCEPT ![p] = "receive"] /\ fd' = [fd EXCEPT ![p] = part']
        /\ content' = [content EXCEPT ![part'] = << >>]
        /\ stream' = [stream EXCEPT ![p] = << >>] /\ final' = final
    BY DEF Create, At
  <1>4. /\ pc'[p] = "receive" /\ fd'[p] = part' /\ stream'[p] = << >>
        /\ content'[part'] = << >>
        /\ final # NoFile => content'[final] = content[final]
    BY <1>2, <1>3 DEF DInv, Domains
  <1>5. Domains'
    BY <1>2, <1>3 DEF DInv, Domains, Pcs, Bytes
  <1>6. NamesApart' /\ FinalKept
    BY <1>2, <1>3, <1>4 DEF NamesApart, FinalKept
  <1>7. PartIsStream' /\ OkMeansWhole'
    BY <1>1, <1>2, <1>4 DEF PartIsStream, OkMeansWhole
  <1> QED
    BY <1>5, <1>6, <1>7 DEF DInv

LEMMA ReceiveKeeps ==
    ASSUME DInv, OneProcess, NEW p \in Processes, Receive(p)
    PROVE  DInv' /\ FinalKept
  <1>1. \A q \in Processes : q = p
    BY DEF OneProcess
  <1>2. PICK chunk \in {"right", "wrong"} :
           /\ stream' = [stream EXCEPT ![p] = Append(@, chunk)]
           /\ content' = [content EXCEPT ![fd[p]] = Overwrite(@, Len(stream[p]) + 1, chunk)]
    BY DEF Receive
  <1>3. /\ pc[p] = "receive" /\ UNCHANGED <<part, final, pc, fd>>
        /\ fd[p] = part /\ part \in Files /\ part # final /\ content[part] = stream[p]
        /\ stream[p] \in Bytes
    BY DownloadAssumption DEF Receive, DInv, Domains, NamesApart, PartIsStream
  <1>4. /\ stream'[p] = Append(stream[p], chunk) /\ Append(stream[p], chunk) \in Bytes
        /\ content' = [content EXCEPT ![part] = Append(stream[p], chunk)]
    <2>1. Overwrite(stream[p], Len(stream[p]) + 1, chunk) = Append(stream[p], chunk)
      BY <1>3, OverwriteAppends
    <2>2. Append(stream[p], chunk) \in Bytes
      BY <1>3 DEF Bytes
    <2>3. stream'[p] = Append(stream[p], chunk)
      BY <1>2 DEF DInv, Domains
    <2>4. content' = [content EXCEPT ![part] = Overwrite(content[part], Len(stream[p]) + 1, chunk)]
      BY <1>2, <1>3
    <2> QED
      BY <1>3, <2>1, <2>2, <2>3, <2>4
  <1>5. Domains'
    BY <1>2, <1>3, <1>4 DEF DInv, Domains
  <1>6. content'[part] = stream'[p] /\ (final # NoFile => content'[final] = content[final])
    BY <1>3, <1>4 DEF DInv, Domains
  <1>7. NamesApart' /\ FinalKept
    BY <1>3, <1>6 DEF DInv, NamesApart, FinalKept
  <1>8. PartIsStream' /\ OkMeansWhole'
    BY <1>1, <1>3, <1>6, DownloadAssumption DEF PartIsStream, OkMeansWhole
  <1> QED
    BY <1>5, <1>7, <1>8 DEF DInv

LEMMA RenameKeeps ==
    ASSUME DInv, OneProcess, NEW p \in Processes, Rename(p)
    PROVE  DInv' /\ FinalKept
  <1>1. \A q \in Processes : q = p
    BY DEF OneProcess
  <1>2. /\ pc[p] = "rename" /\ UNCHANGED <<content, fd, stream>>
        /\ part # NoFile /\ content[part] = stream[p] /\ Matches(stream[p])
    BY DEF Rename, At, DInv, PartIsStream
  <1>3. \/ /\ pc' = [pc EXCEPT ![p] = "err"] /\ UNCHANGED <<part, final>>
        \/ pc' = [pc EXCEPT ![p] = "ok"] /\ final' = part /\ part' = NoFile
    BY DEF Rename, At
  <1>4. Domains'
    BY <1>2, <1>3 DEF DInv, Domains, Pcs
  <1>5. /\ pc'[p] \in {"err", "ok"}
        /\ pc'[p] = "ok" => final' = part
    BY <1>3 DEF DInv, Domains
  <1>6. NamesApart' /\ FinalKept
    BY <1>2, <1>3 DEF DInv, NamesApart, FinalKept, Matches, Whole
  <1>7. PartIsStream' /\ OkMeansWhole'
    BY <1>1, <1>2, <1>5 DEF PartIsStream, OkMeansWhole, Matches, Whole
  <1> QED
    BY <1>4, <1>6, <1>7 DEF DInv

LEMMA DInvStep ==
    ASSUME OneProcess, DInv, [Next]_vars
    PROVE  DInv' /\ [FinalKept]_vars
  <1>1. CASE UNCHANGED vars
    BY <1>1 DEF vars, DInv, Domains, NamesApart, PartIsStream, OkMeansWhole, Matches, Whole
  <1>2. ASSUME NEW p \in Processes, Start(p) \/ Fetch(p) \/ Leave(p)
        PROVE  DInv' /\ FinalKept
    BY <1>2, QuietKeeps, RemoveKeeps, CreateKeeps, ReceiveKeeps, RenameKeeps DEF Fetch
  <1> QED
    BY <1>1, <1>2 DEF Next

(***************************************************************************)
(* The theorems.                                                           *)
(***************************************************************************)

\* The invariant holds of one process, whatever it finds, wherever it is killed.
THEOREM DownloadInvariance ==
    ASSUME OneProcess
    PROVE  Spec => []DInv
  <1>1. DInv /\ [Next]_vars => DInv'
    BY DInvStep
  <1> QED
    BY <1>1, DInvInit, PTL DEF Spec

\* The digest of what was received vouches for the part that is renamed.
THEOREM DigestVouches ==
    ASSUME OneProcess
    PROVE  Spec => []HashedIsWritten
  <1>1. DInv => HashedIsWritten
    BY DEF DInv, PartIsStream, HashedIsWritten
  <1> QED
    BY <1>1, DownloadInvariance, PTL

\* Ok means that a whole, verified file is at the final path.
THEOREM OkIsWhole ==
    ASSUME OneProcess
    PROVE  Spec => []OkMeansWhole
  <1>1. DInv => OkMeansWhole
    BY DEF DInv
  <1> QED
    BY <1>1, DownloadInvariance, PTL

\* The final path changes in one step to a whole file, and what it names is never
\* written to.
THEOREM FinalIsReplacedWhole ==
    ASSUME OneProcess
    PROVE  Spec => FinalOnlyReplacedWhole
  <1>1. DInv /\ [Next]_vars => [FinalKept]_vars
    BY DInvStep
  <1> QED
    BY <1>1, DownloadInvariance, PTL DEF Spec, FinalOnlyReplacedWhole, FinalKept
=============================================================================
