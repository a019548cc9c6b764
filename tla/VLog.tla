------------------------------- MODULE VLog -------------------------------
(***************************************************************************)
(* VLOG(n) and VLOG_IS_ON(n): which verbosity controls a site in the       *)
(* program (src/vlog_is_on.cc).  Threads evaluate sites while others call  *)
(* SetVLOGLevel.  Everything but the first test of a site runs under       *)
(* vmodule_lock, and so is one step.                                       *)
(***************************************************************************)
EXTENDS Integers, Sequences, FiniteSets, SequencesExt

CONSTANTS
  Threads,
  Idle,                 \* a thread that evaluates no site
  Chars,                \* the characters of patterns and names
  Sites,                \* the static SiteFlags
  base_name,            \* per site, the name of its module: a sequence of
                        \* characters, without extension and -inl
  Patterns,             \* arguments of SetVLOGLevel, sequences of characters
  Star, Query,          \* the characters * and ?
  Levels,               \* verbosities
  FLAGS_vmodule,        \* the flag: a sequence of patterns with their levels
  Unset,                \* SiteFlag::level is nullptr
  FLAGS_v,              \* SiteFlag::level points to FLAGS_v
  MaxInfos              \* bound: the patterns added by SetVLOGLevel

VModuleInfo == [module_pattern : Patterns, vlog_level : Levels]

Names == {base_name[s] : s \in Sites}

ASSUME VLogAssumption ==
  /\ FLAGS_vmodule \in Seq(VModuleInfo)
  /\ DOMAIN base_name = Sites
  /\ \A str \in Patterns \cup Names : str \in Seq(Chars)
  /\ Star # Query
  /\ Idle \notin Sites
  /\ Unset \notin Nat /\ FLAGS_v \notin Nat /\ Unset # FLAGS_v
  /\ MaxInfos \in Nat

VARIABLES
  infos,                \* the VModuleInfos that were ever made, never deleted
  vmodule_list,         \* the list of them: the indexes in infos
  cached_site_list,     \* the sites that may have to be redirected
  inited_vmodule,
  level,                \* per site, what controls it: Unset, FLAGS_v or an info
  named,                \* the sites whose base_name has been set
  pc                    \* the site a thread has found Unset, or Idle

vars == <<infos, vmodule_list, cached_site_list, inited_vmodule, level, named, pc>>

Init ==
  /\ infos = <<>>
  /\ vmodule_list = <<>>
  /\ cached_site_list = <<>>
  /\ inited_vmodule = FALSE
  /\ level = [s \in Sites |-> Unset]
  /\ named = {}
  /\ pc = [t \in Threads |-> Idle]

----------------------------------------------------------------------------
(* Patterns *)

\* SafeFNMatch_: matches[p] are the places in str from which its rest matches the
\* pattern's rest from p.  A character that is equal (a star in str, too) is
\* passed first.
SafeFNMatch_(pattern, str) ==
  LET P == Len(pattern)
      matches[p \in 1 .. P + 1] == {s \in 1 .. Len(str) + 1 :
        IF p > P THEN s > Len(str)
        ELSE IF s > Len(str) THEN p = P /\ pattern[p] = Star
        ELSE IF pattern[p] \in {str[s], Query} THEN s + 1 \in matches[p + 1]
        ELSE pattern[p] = Star /\ (p = P \/ \E k \in s .. Len(str) : k \in matches[p + 1])}
  IN  1 \in matches[1]

----------------------------------------------------------------------------
(* Operations *)

\* Mutant: the flag is parsed again and again.
VLOG2Initializer_Again ==
  /\ infos' = infos \o FLAGS_vmodule
  /\ vmodule_list' = [i \in DOMAIN FLAGS_vmodule |-> Len(infos) + i] \o vmodule_list

\* VLOG2Initializer, where the flag has not been parsed yet: its patterns go in
\* front of those that SetVLOGLevel has added before.
VLOG2Initializer ==
  IF inited_vmodule THEN UNCHANGED <<infos, vmodule_list>>
  ELSE /\ infos' = infos \o FLAGS_vmodule
       /\ vmodule_list' = [i \in DOMAIN FLAGS_vmodule |-> Len(infos) + i] \o vmodule_list

\* VLOG_IS_ON reads the site's level without a lock.  If there is one, nothing
\* else happens.
VLOG_IS_ON(t, site) ==
  /\ pc[t] = Idle
  /\ level[site] = Unset
  /\ pc' = [pc EXCEPT ![t] = site]
  /\ UNCHANGED <<infos, vmodule_list, cached_site_list, inited_vmodule, level, named>>

\* Mutant: a site enters the list of cached sites whenever FLAGS_v controls it.
Listed_Again(site) == level'[site] = FLAGS_v

\* Does the site enter cached_site_list?
Listed(site) == level'[site] = FLAGS_v /\ site \notin named

\* What the list of patterns says controls the site: its first match.
SiteFlagValue(site) ==
  LET first == SelectInSeq(vmodule_list', LAMBDA n :
                 SafeFNMatch_(infos'[n].module_pattern, base_name[site]))
  IN  IF first = 0 THEN FLAGS_v ELSE vmodule_list'[first]

\* InitVLOG3__.  The call that parses the flag does not cache what it finds.
InitVLOG3__(t) ==
  LET site == pc[t]
  IN  /\ site # Idle
      /\ VLOG2Initializer
      /\ inited_vmodule' = TRUE
      /\ level' = IF inited_vmodule THEN [level EXCEPT ![site] = SiteFlagValue(site)] ELSE level
      /\ IF Listed(site)
           THEN /\ named' = named \cup {site}
                /\ cached_site_list' = <<site>> \o cached_site_list
           ELSE UNCHANGED <<named, cached_site_list>>
      /\ pc' = [pc EXCEPT ![t] = Idle]

\* Mutant: only the first site that matches is redirected.
Redirected_FirstOnly(module_pattern) ==
  LET first == SelectInSeq(cached_site_list, LAMBDA s :
                 SafeFNMatch_(module_pattern, base_name[s]))
  IN  IF first = 0 THEN {} ELSE {cached_site_list[first]}

\* The cached sites that a new pattern takes over.
Redirected(module_pattern) ==
  {s \in ToSet(cached_site_list) : SafeFNMatch_(module_pattern, base_name[s])}

\* The list without these sites, each unlinked when it is come across.
Unlinked(list, sites) ==
  LET rest[i \in 0 .. Len(list)] ==
        IF i = 0 THEN <<>>
        ELSE IF list[i] \in sites THEN rest[i - 1] ELSE Append(rest[i - 1], list[i])
  IN  rest[Len(list)]

\* SetVLOGLevel for a pattern that nothing in the list matches: it becomes the
\* first one.
AddPattern(module_pattern, log_level) ==
  /\ \A i \in DOMAIN vmodule_list :
       LET info == infos[vmodule_list[i]]
       IN  info.module_pattern # module_pattern
           /\ ~SafeFNMatch_(info.module_pattern, module_pattern)
  /\ Len(infos) < MaxInfos
  /\ infos' = Append(infos, [module_pattern |-> module_pattern, vlog_level |-> log_level])
  /\ vmodule_list' = <<Len(infos')>> \o vmodule_list
  /\ level' = [s \in Sites |->
                 IF s \in Redirected(module_pattern) THEN Len(infos') ELSE level[s]]
  /\ cached_site_list' = Unlinked(cached_site_list, Redirected(module_pattern))
  /\ UNCHANGED <<inited_vmodule, named, pc>>

\* The infos that SetVLOGLevel changes: those with exactly this pattern.
Updated(module_pattern) ==
  {n \in ToSet(vmodule_list) : infos[n].module_pattern = module_pattern}

\* SetVLOGLevel for a pattern that is in the list.
ChangeLevel(module_pattern, log_level) ==
  /\ \E n \in ToSet(vmodule_list) : infos[n].module_pattern = module_pattern
  /\ infos' = [n \in DOMAIN infos |->
                 IF n \in Updated(module_pattern)
                   THEN [infos[n] EXCEPT !.vlog_level = log_level] ELSE infos[n]]
  /\ UNCHANGED <<vmodule_list, cached_site_list, inited_vmodule, level, named, pc>>

\* A pattern that is not in the list, but matched by one that is: nothing changes.
SetVLOGLevel(module_pattern, log_level) ==
  \/ AddPattern(module_pattern, log_level)
  \/ ChangeLevel(module_pattern, log_level)

Next ==
  \/ \E t \in Threads : InitVLOG3__(t) \/ \E s \in Sites : VLOG_IS_ON(t, s)
  \/ \E p \in Patterns, n \in Levels : SetVLOGLevel(p, n)

Spec == Init /\ [][Next]_vars

----------------------------------------------------------------------------
(* Properties *)

\* The meaning of a pattern: cuts[i] characters of str belong to the first i
\* characters of the pattern.
Matches(pattern, str) ==
  \E cuts \in [0 .. Len(pattern) -> 0 .. Len(str)] :
    /\ cuts[0] = 0 /\ cuts[Len(pattern)] = Len(str)
    /\ \A i \in DOMAIN pattern :
         IF pattern[i] = Star THEN cuts[i - 1] <= cuts[i]
         ELSE cuts[i] = cuts[i - 1] + 1 /\ pattern[i] \in {str[cuts[i]], Query}

Pattern(n) == infos[n].module_pattern

\* Type correctness; an info is in the list once, and the flag is parsed once.
TypeOK ==
  /\ infos \in Seq(VModuleInfo)
  /\ Len(infos) <= MaxInfos + Len(FLAGS_vmodule)
  /\ IsInjective(vmodule_list) /\ ToSet(vmodule_list) = DOMAIN infos
  /\ cached_site_list \in Seq(Sites)
  /\ inited_vmodule \in BOOLEAN
  /\ level \in [Sites -> {Unset, FLAGS_v} \cup DOMAIN infos]
  /\ named \subseteq Sites
  /\ pc \in [Threads -> Sites \cup {Idle}]

\* cached_site_list holds each site that FLAGS_v controls exactly once, however
\* threads race to initialize it: a site that entered twice would close the list
\* to a cycle, one that is missing would not hear of SetVLOGLevel.
CachedOnce ==
  /\ IsInjective(cached_site_list)
  /\ ToSet(cached_site_list) = {s \in Sites : level[s] = FLAGS_v}

\* SafeFNMatch_ takes a star in str for the character it is, and fails where the
\* last two characters of a pattern, both stars, are left without any.
Plain(pattern, str) ==
  LET P == Len(pattern)
  IN  Star \notin ToSet(str) /\ ~(P > 1 /\ pattern[P - 1] = Star /\ pattern[P] = Star)

\* A pattern controls a site only if it matches its module, and FLAGS_v only if
\* none does, whether InitVLOG3__ found it or SetVLOGLevel redirected the site to
\* it.
PatternsControl ==
  \A s \in Sites :
    /\ level[s] = FLAGS_v => \A n \in DOMAIN infos :
         Plain(Pattern(n), base_name[s]) => ~Matches(Pattern(n), base_name[s])
    /\ level[s] \in DOMAIN infos => Matches(Pattern(level[s]), base_name[s])
=============================================================================
