--------------------------- MODULE VerifiedRelease ---------------------------
(***************************************************************************)
(* What the upload pipeline promises about the bytes it is trusted with,   *)
(* without its threads, jobs and retries: a local copy is given up, a      *)
(* batch's by releasing it for cleanup or a torrent's by removing it, only *)
(* when what is given up is stored on the remote.                          *)
(***************************************************************************)
CONSTANTS Torrents, Nobody, Files, Batches

VARIABLES asked,     \* asked[t]: files of t that are to be downloaded
          present,   \* present[t]: t and its local files are still there
          stored,    \* stored[t]: files of t that the remote has
          owner,     \* owner[b]: the torrent of batch b; Nobody before it exists
          content,   \* content[b]: the files of batch b
          released   \* batches whose local files may be cleaned up

vars == <<asked, present, stored, owner, content, released>>

Init == /\ asked = [t \in Torrents |-> Files]
        /\ present = [t \in Torrents |-> TRUE]
        /\ stored = [t \in Torrents |-> {}]
        /\ owner = [b \in Batches |-> Nobody]
        /\ content = [b \in Batches |-> {}]
        /\ released = {}

Ask(t, fs) == /\ asked' = [asked EXCEPT ![t] = fs]
              /\ UNCHANGED <<present, stored, owner, content, released>>

\* What a batch consists of is decided once.
Open(b, t, fs) == /\ owner[b] = Nobody
                  /\ owner' = [owner EXCEPT ![b] = t]
                  /\ content' = [content EXCEPT ![b] = fs]
                  /\ UNCHANGED <<asked, present, stored, released>>

\* The remote gains files of a torrent that is still there, and loses none.
Store(t, fs) == /\ present[t]
                /\ stored' = [stored EXCEPT ![t] = @ \cup fs]
                /\ UNCHANGED <<asked, present, owner, content, released>>

Release(b) == /\ owner[b] # Nobody
              /\ content[b] \subseteq stored[owner[b]]
              /\ released' = released \cup {b}
              /\ UNCHANGED <<asked, present, stored, owner, content>>

\* The code may take a release back: a batch is then kept longer than needed.
Reclaim(bs) == /\ released' = released \ bs
               /\ UNCHANGED <<asked, present, stored, owner, content>>

Remove(t) == /\ present[t]
             /\ asked[t] \subseteq stored[t]
             /\ present' = [present EXCEPT ![t] = FALSE]
             /\ UNCHANGED <<asked, stored, owner, content, released>>

Next ==
  \/ \E t \in Torrents : Remove(t) \/ \E fs \in SUBSET Files : Ask(t, fs) \/ Store(t, fs)
  \/ \E b \in Batches : Release(b) \/ \E t \in Torrents, fs \in SUBSET Files : Open(b, t, fs)
  \/ \E bs \in SUBSET Batches : Reclaim(bs)

Spec == Init /\ [][Next]_vars
=============================================================================
