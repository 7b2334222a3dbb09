------------------------------ MODULE ChainAncestry ------------------------------
(***************************************************************************)
(* Chains and their ancestors (internal/db/chainancestry.go).  At a hard   *)
(* fork the blockchain goes on under another id from the next height; fork *)
(* infos, compiled in and configured, say which chain succeeds which.      *)
(* Zero, "" and NoHash stand for what an info leaves out.                  *)
(***************************************************************************)
EXTENDS Naturals, Sequences, SequencesExt, FiniteSets, TLC

NoHash == <<>>

\* config.ForkInfo
ForkInfo(id, parent, start, hash, fork) ==
    [id |-> id, parent |-> parent, start |-> start, hash |-> hash, fork |-> fork]

\* One more info: with a parent it starts after the parent's fork, and must not say otherwise.
WithForkInfo(acc, fi) ==
    LET start == IF fi.start # 0 THEN fi.start
                 ELSE IF fi.parent = "" THEN 1 ELSE acc.map[fi.parent].fork + 1
        consistent == /\ \/ fi.parent = ""
                         \/ /\ fi.parent \in DOMAIN acc.map
                            /\ acc.map[fi.parent].fork # 0
                            /\ start = acc.map[fi.parent].fork + 1
                      /\ fi.fork = 0 \/ fi.fork >= start
    IN  IF acc.ok /\ consistent
        THEN [acc EXCEPT !.map = (fi.id :> [fi EXCEPT !.start = start]) @@ @]
        ELSE [acc EXCEPT !.ok = FALSE]

\* What is configured later overrides what comes first; an inconsistent list is fatal (~ok).
CombinedForkInfoMap(infos) == FoldLeft(WithForkInfo, [ok |-> TRUE, map |-> <<>>], infos)

recursiveFindRoot(map, id) ==
    LET n == Cardinality(DOMAIN map)
        Climb[i \in 0..n] ==
            IF i = 0 THEN id
            ELSE LET child == Climb[i - 1]
                 IN  IF map[child].parent \in DOMAIN map THEN map[child].parent ELSE child
    IN  Climb[n]

\* FullyQualifiedChainId: what is known of a chain.
ChainId(name, start, hash, fork) == [name |-> name, start |-> start, hash |-> hash, fork |-> fork]

\* What the info says wins over what the node said, each field for itself.
mergeAdditionalInfo(chainId, info) ==
    [chainId EXCEPT !.hash = IF info.hash = NoHash THEN @ ELSE info.hash,
                    !.start = IF info.start = 0 THEN @ ELSE info.start,
                    !.fork = IF info.fork = 0 THEN @ ELSE info.fork]

\* The current chain as the node told it, completed, and the root of its ancestors; or a reason to stop.
EnrichAndGetRoot(infos, chainId) ==
    LET combined == CombinedForkInfoMap(infos)
        map == combined.map
        named == chainId.name \in DOMAIN map
        current == IF named THEN mergeAdditionalInfo(chainId, map[chainId.name]) ELSE chainId
        root == IF named THEN map[recursiveFindRoot(map, chainId.name)] ELSE <<>>
    IN  [ok |-> /\ combined.ok
                /\ named \/ chainId.start = 1
                /\ current.fork = 0 \/ current.fork >= current.start,
         current |-> current,
         root |-> IF ~named \/ root.id = chainId.name THEN current
                  ELSE ChainId(root.id, root.start, root.hash, root.fork)]

=============================================================================
