---------------------------- MODULE MCMonitoring ----------------------------
(* An instance of Monitoring for TLC.  Two jobs in one group, of which the  *)
(* second has no interval and no deadline; a day of two units of time.    *)
EXTENDS Monitoring

CONSTANTS backup, sync, report, purge, nightly

MCMonitor == {"watchdog", "heartbeat", "sla", "deadline", "group", "command"}
MCJobs == <<backup, sync>>
MCGroups == <<nightly>>
MCGroupOf == [j \in {backup, sync} |-> nightly]
MCOutcome == {[ok |-> FALSE, took |-> 1], [ok |-> TRUE, took |-> 3]}
MCInterval == [j \in {backup, sync} |-> IF j = backup THEN 1 ELSE 0]
MCTtl == [j \in {backup, sync} |-> IF j = backup THEN 1 ELSE 0]
MCDeadline == [j \in {backup, sync} |-> IF j = backup THEN 1 ELSE Never]
MCSymmetry == Permutations(Worker)
MCHorizon == [monitors |-> 3, throttle |-> 12, book |-> 2]

(* Four jobs: a tag given twice, equal priorities, values None and empty,   *)
(* a label None and one "None", a team in two spellings, and an owner       *)
(* without a team.                                                          *)
MCAttributes ==
    backup :> [tags |-> <<"db", "slow">>, labels |-> [team |-> "ops"], metadata |-> [tier |-> 1],
               priority |-> 5, enabled |-> TRUE, schedule |-> "hourly",
               ownership |-> [team |-> "Ops", slack |-> "#ops"]]
    @@ sync :> [tags |-> <<"db", "db">>, labels |-> [team |-> "web", zone |-> Nothing],
                metadata |-> [tier |-> Nothing], priority |-> Nothing,
                enabled |-> FALSE, schedule |-> "hourly",
                ownership |-> [team |-> "ops"]]
    @@ report :> [tags |-> <<>>, labels |-> [team |-> "", zone |-> "None"], metadata |-> <<>>,
                  priority |-> 5, enabled |-> TRUE, schedule |-> "",
                  ownership |-> <<>>]
    @@ purge :> [tags |-> <<"slow">>, labels |-> <<>>, metadata |-> [tier |-> 1],
                 priority |-> -1, enabled |-> TRUE, schedule |-> "hourly",
                 ownership |-> [email |-> "dba@host", since |-> 2020]]

MCLower == "Ops" :> "ops" @@ "ops" :> "ops" @@ "" :> ""
MCText == Nothing :> "None" @@ [v \in {"", "ops", "web", "None"} |-> v]

(* The configurations of at most three jobs, in any order, and of all four. *)
MCRoutedLists == {<<>>, <<backup, sync, report>>}
MCJobLists == {s \in BoundedSeq({backup, sync, report, purge}, 3) : IsInjective(s)}
                  \cup {<<purge, report, sync, backup>>, <<backup, sync, report, purge>>}

MCRules ==
    {[channel |-> c] @@ r : c \in {"default", "ops"},
        r \in {[tag |-> "db"], [tag |-> "slow"], [job |-> backup], [job |-> purge],
               [label |-> "team"], [label |-> "team", value |-> "web"],
               [job |-> sync, tag |-> "slow"], [tag |-> "slow", label |-> "team"], <<>>}}
MCRuleLists == BoundedSeq(MCRules, 2)
MCChannelSets == {{}, {"default"}, {"ops"}, {"default", "ops"}}
=============================================================================
