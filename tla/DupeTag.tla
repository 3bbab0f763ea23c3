------------------------------ MODULE DupeTag ------------------------------
(***************************************************************************)
(* A Dupe of which one branch is tagged (iterator/tag.go, entries.go):     *)
(*                                                                         *)
(*     dupe c as a and b                                                   *)
(*     tag a with "t"                                                      *)
(*     async sink b to file.File ...                                       *)
(*     sink a to file.File ...                                             *)
(*                                                                         *)
(* An entry is a Go map.  Dupe sends the same map to both branches, Tag    *)
(* sets a field of it, and each sink writes the fields it finds there.  To *)
(* read a map while another goroutine writes it is undefined; here each of *)
(* the two is one step.                                                    *)
(***************************************************************************)
EXTENDS Dupe

CONSTANT Tagged         \* the branches that a tag statement names

VARIABLES
  tags,       \* tags[e]: how often the map of entry e has been tagged
  at,         \* at[c]: the chain of branch c is "next", "tag" or "write"
  lines       \* lines[c]: how often each entry that c has written was tagged

tagVars == <<tags, at, lines>>

TagInit == /\ Init
           /\ tags = [e \in 1..MaxEntries |-> 0]
           /\ at = [c \in Branch |-> "next"]
           /\ lines = [c \in Branch |-> <<>>]

InHand(c) == got[c][Len(got[c])]

\* The sink of c calls Next of Tag, and it Next of the branch.
BranchNext(c) == /\ at[c] = "next"
                 /\ \E e \in 1..MaxEntries : Receive(c, e)
                 /\ at' = [at EXCEPT ![c] = IF c \in Tagged THEN "tag" ELSE "write"]
                 /\ UNCHANGED <<tags, lines>>

BranchEnd(c) == at[c] = "next" /\ ReceiveEnd(c) /\ UNCHANGED tagVars

\* LogEntry.Tag: the tag is set, or appended to the one there is.
SetTag(c) == /\ at[c] = "tag"
             /\ tags' = [tags EXCEPT ![InHand(c)] = @ + 1]
             /\ at' = [at EXCEPT ![c] = "write"]
             /\ UNCHANGED <<vars, lines>>

\* The sink marshals the map and writes it.
WriteLine(c) == /\ at[c] = "write"
                /\ lines' = [lines EXCEPT ![c] = Append(@, tags[InHand(c)])]
                /\ at' = [at EXCEPT ![c] = "next"]
                /\ UNCHANGED <<vars, tags>>

DupeStep == /\ \/ Iterate
               \/ \E c \in Branch, e \in 1..MaxEntries : Release(c, e)
            /\ UNCHANGED tagVars

TagNext == \/ DupeStep
           \/ \E c \in Branch : BranchNext(c) \/ BranchEnd(c) \/ SetTag(c) \/ WriteLine(c)
           \/ Terminated /\ UNCHANGED tagVars

TagSpec == TagInit /\ [][TagNext]_<<vars, tagVars>>

\* grammar.go:34 says "Tag allows easily attaching string metadata to a
\* stream.", and iterator.go:145 that the branches of a Dupe are two
\* iterators: what is written from a stream carries the tags of its own
\* statements and no other.
TagStaysOnBranch ==
  \A c \in Branch : \A n \in DOMAIN lines[c] :
    lines[c][n] = IF c \in Tagged THEN 1 ELSE 0
=============================================================================
