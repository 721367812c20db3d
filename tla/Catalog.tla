------------------------------- MODULE Catalog -------------------------------
(* What is chosen among the configured jobs by their attributes: filters,   *)
(* groups and orders of jobs, and the channels RoutingAlerter sends an      *)
(* alert about a job to.                                                    *)
EXTENDS Subsequences, FiniteSets, SequencesExt

CONSTANTS
    Attributes,    \* the jobs there are, each with its attributes
    JobLists,      \* configurations looked at: a set of sequences of jobs
    RoutedLists,   \* those that rules are looked at with
    RuleLists,     \* routing rules looked at: sequences of rules_cfg entries
    ChannelSets,   \* channels that have an alerter
    Default,       \* default_channel
    Nothing,       \* None: no priority, no such key, no such part of a rule
    Blank,         \* the empty string, by which group_by_label() names no label
    Lower,         \* str.lower() of the names of teams
    Text           \* str() of the values of labels

Named == DOMAIN Attributes

(* The objects of a configuration are distinct.  Of str.lower() only that   *)
(* it makes no name empty.                                                  *)
CatalogAssumption ==
    /\ \A s \in JobLists : s \in Seq(Named) /\ IsInjective(s)
    /\ \A s \in RuleLists : s \in Seq(ToSet(s))
    /\ Nothing # Blank
    /\ \A j \in Named :
          /\ Attributes[j].tags \in Seq(ToSet(Attributes[j].tags))
          /\ Attributes[j].priority # Nothing => Attributes[j].priority \in Int
          /\ "team" \in DOMAIN Attributes[j].ownership =>
                 Attributes[j].ownership.team \in DOMAIN Lower \cup {Nothing}
    /\ Blank \in DOMAIN Lower
    /\ \A name \in DOMAIN Lower : Lower[name] = Lower[Blank] => name = Blank

VARIABLES
    jobs,       \* config.jobs, and the jobs RoutingAlerter knows by name
    rules,      \* JobRouter.rules
    channels,   \* JobRouter.channels
    about,      \* the job of the alert being sent
    queue,      \* the alerters that are yet to get it
    sending,    \* "no", "yes", "sent" or "raised"
    got         \* history: how often each channel got the alert

catalogVars == <<jobs, rules, channels, about, queue, sending, got>>

-----------------------------------------------------------------------------
(* Tags, labels and metadata *)

TagsFor(j) == ToSet(Attributes[j].tags)
JobsWithTag(s, t) == Only(s, {j \in ToSet(s) : t \in TagsFor(j)})
AllTags(s) == UNION {TagsFor(j) : j \in ToSet(s)}
JobsMatchingAny(s, wanted) ==
    Only(s, {j \in ToSet(s) : wanted = {} \/ TagsFor(j) \cap wanted # {}})
JobsMatchingAll(s, wanted) == Only(s, {j \in ToSet(s) : wanted \subseteq TagsFor(j)})

(* dict.get()                                                               *)
GetOr(dict, key, default) == IF key \in DOMAIN dict THEN dict[key] ELSE default
Get(dict, key) == GetOr(dict, key, Nothing)

LabelsFor(j) == Attributes[j].labels
AllLabelKeys(s) == UNION {DOMAIN LabelsFor(j) : j \in ToSet(s)}
JobsWithLabel(s, k) == Only(s, {j \in ToSet(s) : k \in DOMAIN LabelsFor(j)})
JobsWithLabelValue(s, k, v) == Only(s, {j \in ToSet(s) : Get(LabelsFor(j), k) = v})
JobsMatchingLabels(s, required) ==
    Only(s, {j \in ToSet(s) : \A k \in DOMAIN required : Get(LabelsFor(j), k) = required[k]})

MetadataFor(j) == Attributes[j].metadata
GetMeta(j, k) == Get(MetadataFor(j), k)
HasMeta(j, k) == k \in DOMAIN MetadataFor(j)
AllMetaKeys(s) == UNION {DOMAIN MetadataFor(j) : j \in ToSet(s)}
JobsWithMeta(s, k) == Only(s, {j \in ToSet(s) : HasMeta(j, k)})
JobsWithMetaValue(s, k, v) ==
    Only(s, {j \in ToSet(s) : GetMeta(j, k) # Nothing /\ GetMeta(j, k) = v})
JobsMatchingMetadata(s, criteria) ==
    Only(s, {j \in ToSet(s) : \A k \in DOMAIN criteria : GetMeta(j, k) = criteria[k]})

(* owner_for(): the dictionary under "ownership" in the job's metadata, or   *)
(* an empty one; of its other entries only the keys are kept.               *)
OwnerFor(j) ==
    LET given == Attributes[j].ownership
    IN [team |-> Get(given, "team"), email |-> Get(given, "email"), slack |-> Get(given, "slack"),
        extra |-> DOMAIN given \ {"team", "email", "slack"}]

NoOwner == [team |-> Nothing, email |-> Nothing, slack |-> Nothing, extra |-> {}]
JobsWithoutOwner(s) == Only(s, {j \in ToSet(s) : OwnerFor(j) = NoOwner})

(* A team that is None is looked for as the empty string.                   *)
TeamName(j) == IF OwnerFor(j).team = Nothing THEN Blank ELSE OwnerFor(j).team
JobsOwnedByTeam(s, team) == Only(s, {j \in ToSet(s) : Lower[TeamName(j)] = Lower[team]})
AllTeams(s) == {OwnerFor(j).team : j \in ToSet(s)} \ {Nothing, Blank}

(* JobFilter.matches(); a name pattern is the set of names it fits.         *)
FilterMatches(j, tags, names, enabledOnly) ==
    /\ enabledOnly => Attributes[j].enabled
    /\ j \in names
    /\ tags # {} => \E t \in tags : t \in TagsFor(j)

ApplyFilter(s, tags, names, enabledOnly) ==
    Only(s, {j \in ToSet(s) : FilterMatches(j, tags, names, enabledOnly)})

SelectJobs(s, tags, names, includeDisabled) == ApplyFilter(s, tags, names, ~includeDisabled)

-----------------------------------------------------------------------------
(* Priorities.  sorted() keeps the order of equals, also in reverse.        *)

PriorityOf(j) == IF Attributes[j].priority = Nothing THEN 0 ELSE Attributes[j].priority

(* A list sorted the other way and then reversed.                           *)
SortByPriorityLaterFirst(s) == Reverse(SortedBy(s, [i \in DOMAIN s |-> -PriorityOf(s[i])]))

SortByPriority(s) == SortedBy(s, [i \in DOMAIN s |-> PriorityOf(s[i])])

HighestPriority(s) ==
    IF s = <<>> THEN 0
    ELSE CHOOSE p \in {PriorityOf(j) : j \in ToSet(s)} : \A j \in ToSet(s) : PriorityOf(j) <= p

FilterByMinPriority(s, least) == Only(s, {j \in ToSet(s) : PriorityOf(j) >= least})

-----------------------------------------------------------------------------
(* Groups: pairs of a key and its jobs, in the order of the dictionary.     *)

(* What groups[key].append(job) builds, done for each of a list of entries. *)
JobsOf(entries) == [n \in DOMAIN entries |-> entries[n].job]
Grouped(entries) ==
    LET keys == Firsts([n \in DOMAIN entries |-> entries[n].key])
    IN [n \in DOMAIN keys |->
           [key |-> keys[n],
            jobs |-> JobsOf(Only(entries, {e \in ToSet(entries) : e.key = keys[n]}))]]

GroupBy(s, key) == Grouped([n \in DOMAIN s |-> [key |-> key[s[n]], job |-> s[n]]])

(* A job that has a tag twice is twice in its group.                        *)
TagEntries(j) ==
    [n \in DOMAIN Attributes[j].tags |-> [key |-> Attributes[j].tags[n], job |-> j]]
GroupByTag(s) == Grouped(FlattenSeq([n \in DOMAIN s |-> TagEntries(s[n])]))

GroupByLabel(s, k) == GroupBy(s, [j \in ToSet(s) |-> Text[GetOr(LabelsFor(j), k, Blank)]])
GroupBySchedule(s) == GroupBy(s, [j \in ToSet(s) |-> Attributes[j].schedule])
GroupByTeam(s) == GroupBy(s, [j \in ToSet(s) |-> OwnerFor(j).team])
GroupByPriority(s) ==
    LET groups == GroupBy(s, [j \in ToSet(s) |-> PriorityOf(j)])
    IN SortedBy(groups, [n \in DOMAIN groups |-> groups[n].key])

(* flatten_groups(): every job once, where it is seen first.                *)
FlattenGroups(groups) == Firsts(FlattenSeq([n \in DOMAIN groups |-> groups[n].jobs]))

(* largest_group(): the first of the groups with the most jobs.             *)
LargestGroup(groups) ==
    groups[Min({n \in DOMAIN groups : \A m \in DOMAIN groups :
                    Len(groups[m].jobs) <= Len(groups[n].jobs)})]

-----------------------------------------------------------------------------
(* JobRouter and RoutingAlerter *)

(* build_router(): the parts of a rule that are not given are None.         *)
RuleFrom(cfg) == [channel |-> cfg.channel, job |-> Get(cfg, "job"), tag |-> Get(cfg, "tag"),
                  label |-> Get(cfg, "label"), value |-> Get(cfg, "value")]

(* A job RoutingAlerter does not know has a name and no attributes.         *)
Known(j) == Contains(jobs, j)
RoutedTags(j) == IF Known(j) THEN TagsFor(j) ELSE {}
RoutedLabels(j) == IF Known(j) THEN LabelsFor(j) ELSE <<>>

(* RoutingRule.matches(): the first part of the rule that is set decides.   *)
RuleMatches(rule, j) ==
    CASE rule.job # Nothing -> j = rule.job
      [] rule.job = Nothing /\ rule.tag # Nothing -> rule.tag \in RoutedTags(j)
      [] rule.job = Nothing /\ rule.tag = Nothing ->
             /\ rule.label # Nothing
             /\ rule.label \in DOMAIN RoutedLabels(j)
             /\ rule.value # Nothing => RoutedLabels(j)[rule.label] = rule.value

ChannelsOf(list) == [n \in DOMAIN list |-> list[n].channel]
Matched(j) == Only(rules, {r \in ToSet(rules) : RuleMatches(r, j)})

(* A router that stops at the first rule that matches.                      *)
ChannelsForFirst(j) ==
    IF Matched(j) = <<>> THEN <<Default>> ELSE <<Matched(j)[1].channel>>

ChannelsFor(j) ==
    IF Matched(j) = <<>> THEN <<Default>> ELSE ChannelsOf(Matched(j))

AlertersFor(j) == Only(ChannelsFor(j), channels)

NobodyGot == [c \in UNION ChannelSets |-> 0]

(* The selections do not look at rules, and the routes not at the order of  *)
(* jobs, so not every configuration is looked at with every list of rules.  *)
Init ==
    /\ jobs \in JobLists
    /\ \E cfgs \in IF jobs \in RoutedLists THEN RuleLists ELSE {<<>>} :
           rules = [n \in DOMAIN cfgs |-> RuleFrom(cfgs[n])]
    /\ channels \in ChannelSets
    /\ about = Nothing /\ queue = <<>> /\ sending = "no" /\ got = NobodyGot

(* RoutingAlerter.send() begins.                                            *)
StartSend(j) ==
    /\ sending # "yes"
    /\ about' = j
    /\ queue' = AlertersFor(j)
    /\ sending' = "yes"
    /\ got' = NobodyGot
    /\ UNCHANGED <<jobs, rules, channels>>

(* One alerter after the other; the first that raises is the last.          *)
Deliver ==
    /\ sending = "yes" /\ queue # <<>>
    /\ got' = [got EXCEPT ![Head(queue)] = @ + 1]
    /\ queue' = Tail(queue)
    /\ UNCHANGED <<jobs, rules, channels, about, sending>>

DeliverRaises ==
    /\ sending = "yes" /\ queue # <<>>
    /\ sending' = "raised"
    /\ UNCHANGED <<jobs, rules, channels, about, queue, got>>

EndSend ==
    /\ sending = "yes" /\ queue = <<>>
    /\ sending' = "sent"
    /\ UNCHANGED <<jobs, rules, channels, about, queue, got>>

Next == (\E j \in Named : StartSend(j)) \/ Deliver \/ DeliverRaises \/ EndSend

-----------------------------------------------------------------------------
(* Properties *)

(* The jobs a rule picks, by the selections of job_tags and job_labels.     *)
PickedBy(rule) ==
    CASE rule.job # Nothing -> {rule.job}
      [] rule.job = Nothing /\ rule.tag # Nothing -> ToSet(JobsWithTag(jobs, rule.tag))
      [] rule.job = Nothing /\ rule.tag = Nothing /\ rule.label = Nothing -> {}
      [] OTHER -> ToSet(IF rule.value = Nothing THEN JobsWithLabel(jobs, rule.label)
                        ELSE JobsWithLabelValue(jobs, rule.label, rule.value))

(* An alert that was sent reached each configured channel as often as a     *)
(* rule for it picks the job, and the default channel when none does; one   *)
(* that raised reached none more often (job_routing.py:38-59,               *)
(* routing_alerter.py:36-45).  That a channel without an alerter swallows   *)
(* the alert is part of it: then nobody is told, and nothing raises.        *)
RoutedAsRuled ==
    sending # "no" => \A c \in channels :
        LET naming == {n \in DOMAIN rules : rules[n].channel = c /\ about \in PickedBy(rules[n])}
            unruled == \A n \in DOMAIN rules : about \notin PickedBy(rules[n])
            due == IF unruled THEN (IF c = Default THEN 1 ELSE 0) ELSE Cardinality(naming)
        IN got[c] <= due /\ (sending = "sent" => got[c] = due)

Bucket(groups, key) == UNION {ToSet(groups[n].jobs) : n \in {m \in DOMAIN groups : groups[m].key = key}}
OnceEach(s, t) == IsInjective(s) /\ ToSet(s) = ToSet(t)

(* Filters by tag agree with each other and with the groups by tag.         *)
TagsAgree ==
    /\ \A some \in SUBSET AllTags(jobs) :
          /\ SelectJobs(jobs, some, Named, TRUE) = JobsMatchingAny(jobs, some)
          /\ ToSet(SelectJobs(jobs, some, Named, FALSE)) =
                 {j \in ToSet(JobsMatchingAny(jobs, some)) : Attributes[j].enabled}
          /\ ToSet(JobsMatchingAll(jobs, some)) =
                 {j \in ToSet(jobs) : \A t \in some : j \in ToSet(JobsWithTag(jobs, t))}
    /\ \A t \in AllTags(jobs) : Bucket(GroupByTag(jobs), t) = ToSet(JobsWithTag(jobs, t))
    /\ OnceEach(FlattenGroups(GroupByTag(jobs)), Only(jobs, {j \in ToSet(jobs) : TagsFor(j) # {}}))

(* A group by label has the jobs of all values that are written as its key. *)
(* That of the empty label also holds jobs without it, and is left out.     *)
LabelsAgree ==
    \A k \in AllLabelKeys(jobs) :
        LET values == {LabelsFor(j)[k] : j \in ToSet(JobsWithLabel(jobs, k))}
            labelled(v) == ToSet(JobsWithLabel(jobs, k)) \cap ToSet(JobsWithLabelValue(jobs, k, v))
        IN /\ OnceEach(FlattenGroups(GroupByLabel(jobs, k)), jobs)
           /\ \A v \in values :
                 /\ Text[v] # Text[Blank] =>
                        Bucket(GroupByLabel(jobs, k), Text[v]) =
                            UNION {labelled(u) : u \in {w \in values : Text[w] = Text[v]}}
                 /\ JobsMatchingLabels(jobs, [x \in {k} |-> v]) = JobsWithLabelValue(jobs, k, v)

MetadataAgree ==
    \A k \in AllMetaKeys(jobs) :
        LET facts == {GetMeta(j, k) : j \in ToSet(jobs)} \ {Nothing}
        IN /\ \A v \in facts :
                 JobsMatchingMetadata(jobs, [x \in {k} |-> v]) = JobsWithMetaValue(jobs, k, v)
           /\ {j \in ToSet(JobsWithMeta(jobs, k)) : GetMeta(j, k) # Nothing} =
                  UNION {ToSet(JobsWithMetaValue(jobs, k, v)) : v \in facts}

(* The groups of teams tell upper case from lower, and those spelt alike    *)
(* but for that are together the jobs the team owns; a job that nobody owns *)
(* is in the group of no team.                                              *)
TeamsAgree ==
    /\ \A team \in AllTeams(jobs) \cup {Blank} :
          ToSet(JobsOwnedByTeam(jobs, team)) =
              UNION {Bucket(GroupByTeam(jobs), t) :
                        t \in {u \in AllTeams(jobs) : Lower[u] = Lower[team]}
                                \cup IF team = Blank THEN {Blank, Nothing} ELSE {}}
    /\ ToSet(JobsWithoutOwner(jobs)) \subseteq Bucket(GroupByTeam(jobs), Nothing)
    /\ OnceEach(FlattenGroups(GroupByTeam(jobs)), jobs)

SchedulesAgree ==
    LET schedules == GroupBySchedule(jobs)
    IN /\ jobs # <<>> => \A n \in DOMAIN schedules :
              Len(schedules[n].jobs) <= Len(LargestGroup(schedules).jobs)
       /\ OnceEach(FlattenGroups(schedules), jobs)

(* The groups by priority, in their order, are the sorted list, of which a  *)
(* least priority takes the front.                                          *)
PrioritiesAgree ==
    LET sorted == SortByPriority(jobs)
    IN /\ FlattenGroups(GroupByPriority(jobs)) = sorted
       /\ jobs # <<>> => HighestPriority(jobs) = PriorityOf(sorted[1])
       /\ \A least \in {PriorityOf(j) : j \in Named} :
              LET kept == Len(FilterByMinPriority(jobs, least))
              IN ToSet(FilterByMinPriority(jobs, least)) = ToSet(SubSeq(sorted, 1, kept))

(* The selections, written apart from one another in nine files, agree: the *)
(* groups hold every job once, the filters pick what is grouped, the sorted *)
(* list is the groups in their order (job_tags.py, job_labels.py,           *)
(* job_metadata.py, job_filter.py, job_selector.py, job_priority.py,        *)
(* job_grouping.py, job_ownership.py).                                      *)
SelectionsAgree ==
    /\ TagsAgree /\ LabelsAgree /\ MetadataAgree
    /\ TeamsAgree /\ SchedulesAgree /\ PrioritiesAgree
=============================================================================
