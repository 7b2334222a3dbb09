------------------------------- MODULE MCStartUp -------------------------------
(***************************************************************************)
(* Mainnet with its forks moved down to 2 and 4, and what its operators    *)
(* met or may meet: a fork after 7 that the infos learn of in time, late   *)
(* or only after the next one; pruned nodes, a genesis file, a chain       *)
(* nobody knows, a database of every version.                              *)
(***************************************************************************)
EXTENDS StartUp

Chain(root, end) == [root |-> root, end |-> end]
MCWorld ==
    "thorchain-1" :> Chain("thorchain", 7) @@ "thorchain-2" :> Chain("thorchain", 8)
    @@ "thorchain-3" :> Chain("thorchain", 0) @@ "stagenet-2" :> Chain("stagenet-2", 0)
    @@ "lostnet" :> Chain("lostnet", 0)

MainnetBlock(h) == Block(h, <<"real", "thorchain">>)
MCWellKnown ==
    << ForkInfo("thorchain", "", 1, MainnetBlock(1), 2),
       ForkInfo("thorchain-mainnet-v1", "thorchain", 3, MainnetBlock(3), 4),
       ForkInfo("thorchain-1", "thorchain-mainnet-v1", 5, MainnetBlock(5), 0),
       ForkInfo("stagenet-2", "", 3, Block(3, <<"real", "stagenet-2">>), 0) >>

\* What is configured of the later forks.
ForkAt7 == <<ForkInfo("thorchain-1", "thorchain-mainnet-v1", 0, NoHash, 7)>>
Succeeds(hash) == ForkAt7 \o <<ForkInfo("thorchain-2", "thorchain-1", 0, hash, 0)>>
SucceedsTwice ==
    ForkAt7 \o <<ForkInfo("thorchain-2", "thorchain-1", 0, NoHash, 8),
                 ForkInfo("thorchain-3", "thorchain-2", 0, NoHash, 0)>>
Discontinuous == <<ForkInfo("thorchain-2", "thorchain-1", 9, NoHash, 0)>>

On(net, earliest, latest, infos) ==
    [net |-> net, earliest |-> earliest, latest |-> latest, infos |-> infos, store |-> TRUE, full |-> FALSE,
     noauto |-> FALSE, noautoAgg |-> FALSE, agg |-> "agg1", genesis |-> <<>>]
GenesisAt(h) == <<[height |-> h, hash |-> MainnetBlock(h)]>>

Uninformed == On("thorchain-1", 5, 9, <<>>)
Informed7 == On("thorchain-1", 5, 9, ForkAt7)
Second == On("thorchain-2", 8, 8, Succeeds(NoHash))

MCScenarios ==
    { <<Uninformed, Informed7, Second>>,
      <<[Uninformed EXCEPT !.latest = 7], Informed7, [Second EXCEPT !.store = FALSE]>>,
      <<Uninformed, Second>>,
      <<Uninformed, On("thorchain-3", 9, 9, SucceedsTwice)>>,
      <<[Informed7 EXCEPT !.full = TRUE], Second, On("thorchain-2", 9, 9, Succeeds(NoHash))>>,
      <<Informed7, Second, On("thorchain-2", 9, 9, Succeeds(MainnetBlock(8)))>>,
      <<[Informed7 EXCEPT !.agg = "agg2"], [Informed7 EXCEPT !.noauto = TRUE],
        [Informed7 EXCEPT !.noautoAgg = TRUE]>>,
      <<[Informed7 EXCEPT !.genesis = GenesisAt(3)], [Informed7 EXCEPT !.genesis = GenesisAt(5)],
        [Informed7 EXCEPT !.store = FALSE]>>,
      <<[Informed7 EXCEPT !.genesis = <<[height |-> 6, hash |-> MainnetBlock(5)]>>],
        [Informed7 EXCEPT !.genesis = GenesisAt(6)]>>,
      <<On("stagenet-2", 3, 5, <<>>), [On("lostnet", 1, 3, <<>>) EXCEPT !.store = FALSE],
        [On("lostnet", 3, 5, <<>>) EXCEPT !.store = FALSE]>>,
      <<On("thorchain-2", 8, 8, Discontinuous), Second>> }

\* An operator who is told of every fork.
MCToldOfForks == { <<Informed7, Second>> }

Chunk(first, last) == [h \in first..last |-> MainnetBlock(h)]
MCRemote == 2 :> Chunk(1, 2) @@ 4 :> Chunk(3, 4) @@ 6 :> NotThere @@ 7 :> Chunk(7, 7)

Filled(last, hash) ==
    [hash |-> hash, aggHash |-> "agg1", chainId |-> Mainnet, genesis |-> 0,
     blocks |-> [h \in 1..last |-> MainnetBlock(h)],
     states |-> {1, last} \cup {h \in 1..last : h % CommitBatchSize = 0},
     rows |-> [h \in 1..last |-> 1],
     data |-> IF hash = "0000" THEN "0000" ELSE CodeHash, agg |-> "agg1"]
MCDatabases ==
    {NoTables, [EmptyTables EXCEPT !.hash = "7da3"], Filled(4, "38cc"), Filled(6, "7da3"),
     Filled(4, "741a"), Filled(6, "0000")}

================================================================================
