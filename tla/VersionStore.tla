---------------------------- MODULE VersionStore ----------------------------
(***************************************************************************)
(* What the state database (pi/src/state) promises to the agent manager: a *)
(* document that is edited in memory, versions of it that are saved one    *)
(* after the other and never change, and a prefix of them that survives    *)
(* the end of the program, however it ends.                                *)
(***************************************************************************)
EXTENDS Naturals, Sequences

CONSTANT Documents,   \* what a document may be
         EmptyDocument

VARIABLES doc,        \* the document, while the database is open
          versions,   \* the versions that were saved
          durable,    \* how many of them are on the disk
          up          \* the database is open

vsVars == <<doc, versions, durable, up>>

Latest == IF versions = <<>> THEN EmptyDocument ELSE versions[Len(versions)]

VSInit == /\ doc = EmptyDocument /\ versions = <<>>
          /\ durable = 0 /\ up = FALSE

\* The latest version is what an opened database starts from.
OpenStore == /\ ~up /\ up' = TRUE
             /\ doc' = Latest
             /\ UNCHANGED <<versions, durable>>

Modify == /\ up
          /\ doc' \in Documents
          /\ UNCHANGED <<versions, durable, up>>

\* The disk may take a part of what is not durable yet at any time.
SinkTo(n) == durable <= n /\ durable' = n

\* The document becomes a version.
SaveVersion == /\ up
               /\ versions' = Append(versions, doc)
               /\ \E n \in durable..Len(versions') : SinkTo(n)
               /\ UNCHANGED <<doc, up>>

\* Part of what was saved, or all of it, reaches the disk.
Settle == /\ up
          /\ \E n \in durable..Len(versions) : SinkTo(n)
          /\ UNCHANGED <<doc, versions, up>>

\* The program ends: what is durable is left, and nothing else.
Stop == /\ up /\ up' = FALSE
        /\ \E n \in durable..Len(versions) :
             /\ SinkTo(n)
             /\ versions' = SubSeq(versions, 1, n)
        /\ doc' = EmptyDocument

VSNext == OpenStore \/ Modify \/ SaveVersion \/ Settle \/ Stop

VSSpec == VSInit /\ [][VSNext]_vsVars
=============================================================================
