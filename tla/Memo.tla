-------------------------------- MODULE Memo --------------------------------
(***************************************************************************)
(* core/memo.py, and the files of core/adapters/cassette.py: what a        *)
(* specialist said, kept on disk under a key that names the model, in a    *)
(* directory every run over one repository shares.  An answer is written   *)
(* beside its place and moved there.  Two processes that keep one key      *)
(* write one temporary (`.partial` of the memo, `.tmp` of a recording): a  *)
(* file is an inode, named here by the process that created it, and a name *)
(* is moved from under a process that still writes to it.                  *)
(***************************************************************************)
CONSTANTS Procs, Keys, Answers, NoFile,
          Earlier,   \* the inode of a file that was there before
          Half       \* content that does not parse

VARIABLES entry,    \* per key: the inode at its place
          partial,  \* per key: the inode under the temporary name
          content,  \* per key and inode: what it holds
          fd        \* per process: the key and inode it is writing, if any

memoVars == <<entry, partial, content, fd>>

Closed == <<NoFile, NoFile>>

Inodes == Procs \cup {Earlier}

\* left: what is there at the beginning, a whole answer or nothing per key.
MemoInit(left) ==
    /\ entry = [k \in Keys |-> IF left[k] = NoFile THEN NoFile ELSE Earlier]
    /\ partial = [k \in Keys |-> NoFile]
    /\ content = [k \in Keys |-> [i \in Inodes |->
                     IF i = Earlier /\ left[k] # NoFile THEN left[k] ELSE Half]]
    /\ fd = [p \in Procs |-> Closed]

\* Slip: on unless the cache is turned off.
AlwaysOn(cache, record, replay) == cache

\* A memo is for live runs, and only for those.
Enabled(cache, record, replay) == cache /\ ~record /\ ~replay

Lies(k) == entry[k] # NoFile
Kept(k) == content[k][entry[k]]

\* recall: an entry that is not there, or does not parse, is a miss.
Hit(k) == Lies(k) /\ Kept(k) # Half

\* Slip: the answer is written where it will be read.
OpenInPlace(p, k) ==
    /\ fd[p] = Closed
    /\ entry' = [entry EXCEPT ![k] = p]
    /\ fd' = [fd EXCEPT ![p] = <<k, p>>]
    /\ content' = [content EXCEPT ![k][p] = Half]
    /\ UNCHANGED partial

\* remember, and _write of a recording, in the steps another process can come
\* between.  The temporary is opened, which empties it ...
Open(p, k) ==
    /\ fd[p] = Closed
    /\ LET inode == IF partial[k] = NoFile THEN p ELSE partial[k]
       IN  /\ partial' = [partial EXCEPT ![k] = inode]
           /\ fd' = [fd EXCEPT ![p] = <<k, inode>>]
           /\ content' = [content EXCEPT ![k][inode] = Half]
    /\ UNCHANGED entry

\* ... written, over whatever another process wrote there meanwhile, of which a
\* longer answer leaves a tail ...
Fill(p, answer) ==
    LET k == fd[p][1]
        inode == fd[p][2]
    IN  /\ fd[p] # Closed
        /\ \E written \in {answer} \cup (IF content[k][inode] = Half THEN {} ELSE {Half}) :
              content' = [content EXCEPT ![k][inode] = written]
        /\ fd' = [fd EXCEPT ![p] = Closed]
        /\ UNCHANGED <<entry, partial>>

\* ... and moved, if the name is still there.  If it is not, nothing is kept: an
\* OSError, which remember lets pass and _write does not.
Gone(k) == partial[k] = NoFile

Replace(p, k) ==
    /\ fd[p] = Closed
    /\ entry' = [entry EXCEPT ![k] = IF Gone(k) THEN @ ELSE partial[k]]
    /\ partial' = [partial EXCEPT ![k] = NoFile]
    /\ UNCHANGED <<content, fd>>
=============================================================================
