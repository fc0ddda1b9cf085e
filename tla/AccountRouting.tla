---------------------------- MODULE AccountRouting ----------------------------
(***************************************************************************)
(* Which Google accounts a message names (src/metis_head/                  *)
(* account_routing.py).  A message is a sequence of words and separators,  *)
(* a label the sequence of its slash-separated components, each of them a  *)
(* sequence of words.  Words stand for themselves, so "the longer first"   *)
(* counts words here and letters in the code: the two differ only between  *)
(* patterns of which neither is part of the other.                         *)
(***************************************************************************)
EXTENDS Naturals, Sequences, FiniteSets, SequencesExt

CONSTANTS
    Separators,         \* , ; and . end the scope of an exclusion
    ExclusionWords,     \* not, except, without ...
    ShortWords,         \* words of one or two letters identify nobody
    AccountTerms, MailTerms, ReadTerms, WriteTerms,
    CancelMessages      \* never mind, forget it ...

\* A connected profile of the setup: an account and its label.
AccountProfile(account, label) == [account |-> account, label |-> label]

Words(message) == ToSet(message)

\* is_account_request
IsAccountRequest(message) ==
    /\ Words(message) \cap WriteTerms = {}
    /\ \/ Words(message) \cap AccountTerms # {}
       \/ Words(message) \cap MailTerms # {} /\ Words(message) \cap ReadTerms # {}

\* normalize_label: slashes count for nothing.
WholeLabel(profile) == FlattenSeq(profile.label)

\* The words and the components that may stand for a label.
Aliases(profile) ==
    {<<word>> : word \in Words(WholeLabel(profile)) \ ShortWords}
    \cup (ToSet(profile.label) \ {WholeLabel(profile), <<>>})

AliasOwners(alias, profiles) == {i \in DOMAIN profiles : alias \in Aliases(profiles[i])}

OccursAt(pattern, message, at) ==
    \E to \in at..Len(message) : pattern = SubSeq(message, at, to)

Mention(pattern, at, owners, full) ==
    [from |-> at, to |-> at + Len(pattern) - 1, owners |-> owners, full |-> full]

\* Every place where a label or an alias could be meant.
PossibleMentions(message, profiles) ==
    LET aliases == UNION {Aliases(profiles[i]) : i \in DOMAIN profiles}
        found(name, owners, full) ==
            {Mention(name, at, owners, full) : at \in {at \in DOMAIN message : OccursAt(name, message, at)}}
    IN  (UNION {found(WholeLabel(profiles[i]), {i}, TRUE) : i \in DOMAIN profiles})
        \cup
        (UNION {found(alias, AliasOwners(alias, profiles), FALSE) : alias \in aliases})

Owners(mentions) == UNION {m.owners : m \in mentions}

Overlap(left, right) == left.from <= right.to /\ right.from <= left.to

Size(mention) == mention.to - mention.from

\* Labels are looked for before aliases, long ones before short ones, and of two profiles
\* with the same label the first is found.
TakenBefore(left, right) ==
    \/ left.full /\ ~right.full
    \/ /\ left.full = right.full
       /\ \/ Size(left) > Size(right)
          \/ Size(left) = Size(right) /\ left.from < right.from
          \/ /\ Size(left) = Size(right) /\ left.from = right.from
             /\ \E i \in left.owners : \A j \in right.owners : i < j

TakenFirst(left) == CHOOSE m \in left : \A n \in left \ {m} : TakenBefore(m, n)

\* No word is read twice: a mention that is taken rules out all that overlap with it.
StillPossible(left) == LET first == TakenFirst(left) IN {m \in left : ~Overlap(m, first)}

Mentions(message, profiles) ==
    LET possible == PossibleMentions(message, profiles)
        taken[left \in SUBSET possible] ==
            IF left = {} THEN {} ELSE {TakenFirst(left)} \cup taken[StillPossible(left)]
    IN  taken[possible]

\* _EXCLUSION: an excluding word earlier in the same clause.
IsExcluded(message, mention) ==
    \E i \in 1..(mention.from - 1) :
        /\ message[i] \in ExclusionWords
        /\ \A j \in i..(mention.from - 1) : message[j] \notin Separators

Places(i, mentions) == {m.from : m \in {m \in mentions : m.owners = {i}}}

\* The accounts of some profiles, in the order in which they are first named.
InOrder(owners, mentions, profiles) ==
    LET earlier(i) == {j \in owners : \E at \in Places(j, mentions) :
                                         \A from \in Places(i, mentions) : at < from}
        nth(k) == CHOOSE i \in owners : Cardinality(earlier(i)) = k - 1
    IN  [k \in 1..Cardinality(owners) |-> profiles[nth(k)].account]

Resolution == [status |-> "none", matched |-> <<>>, excluded |-> {}, ambiguous |-> {},
               explicit |-> FALSE, request |-> FALSE]

(* Faulty variant: a name that stands for one profile settles the matter, whatever else is
   ambiguous. *)
JudgeSelectedFirst(selected, shared) ==
    IF selected # {} THEN "matched" ELSE IF shared # {} THEN "ambiguous" ELSE "unnamed"

\* One ambiguous name asks for clarification, whatever else is clear.
Judge(selected, shared) ==
    IF shared # {} THEN "ambiguous" ELSE IF selected # {} THEN "matched" ELSE "unnamed"

\* What the mentions of a message come to: those that name, and the profiles that are excluded.
Weigh(named, excluded, profiles, request) ==
    LET selected == Owners({m \in named : Cardinality(m.owners) = 1}) \ excluded
        shared == Owners({m \in named : Cardinality(m.owners) > 1}) \ excluded
        remaining == (DOMAIN profiles) \ excluded
        accounts(owners) == {profiles[i].account : i \in owners}
        found == [Resolution EXCEPT !.excluded = accounts(excluded), !.request = TRUE]
        unclear(owners) == [found EXCEPT !.status = "clarification_required",
                                         !.ambiguous = accounts(owners)]
        verdict == Judge(selected, shared)
    IN  CASE verdict = "ambiguous" -> [unclear(selected \cup shared) EXCEPT !.explicit = TRUE]
          [] verdict = "matched" ->
                [found EXCEPT !.status = "matched", !.explicit = TRUE,
                              !.matched = InOrder(selected, named, profiles)]
          [] verdict = "unnamed" /\ ~request ->
                [found EXCEPT !.status = "not_account_request", !.request = FALSE]
          [] verdict = "unnamed" /\ request /\ Cardinality(remaining) = 1 ->
                [found EXCEPT !.status = "sole_profile",
                              !.matched = <<profiles[CHOOSE i \in remaining : TRUE].account>>]
          [] OTHER -> unclear(remaining)

\* resolve_account_labels; required is what the caller says of require_selection.  An
\* account that is excluded once is excluded everywhere.
Resolve(message, profiles, required) ==
    LET mentions == Mentions(message, profiles)
        excluded == {m \in mentions : IsExcluded(message, m)}
        request == required = "unknown" => IsAccountRequest(message)
    IN  IF message \in CancelMessages THEN [Resolution EXCEPT !.status = "cancelled"]
        ELSE IF profiles = <<>>
        THEN [Resolution EXCEPT !.status = "no_profiles", !.request = request]
        ELSE Weigh(mentions \ excluded, Owners(excluded), profiles, request)

-----------------------------------------------------------------------------
\* What a message may do, said of its words.

Names(profile) == Aliases(profile) \cup {WholeLabel(profile)}

\* The names that occur at a place of the message, and those of several words that
\* take the word there in.
NamesAt(message, profiles, at) ==
    {name \in UNION {Names(profiles[i]) : i \in DOMAIN profiles} : OccursAt(name, message, at)}

LongNamesOver(message, profiles, at) ==
    {name \in UNION {NamesAt(message, profiles, from) : from \in 1..at} :
        Len(name) > 1 /\ \E from \in 1..at : at < from + Len(name) /\ OccursAt(name, message, from)}

\* A name stands for one profile: the first of those whose label it is, or the only one
\* that has it for an alias.  Of two profiles with one label the second has no label.
IsNamedBy(i, name, profiles) ==
    \/ name = WholeLabel(profiles[i]) /\ \A j \in 1..(i - 1) : name # WholeLabel(profiles[j])
    \/ AliasOwners(name, profiles) = {i}

\* A word that several profiles have in common and that is nobody's label.
IsShared(word, profiles) ==
    /\ Cardinality(AliasOwners(word, profiles)) > 1
    /\ \A i \in DOMAIN profiles : word # WholeLabel(profiles[i])

InExclusion(message, at) == IsExcluded(message, [from |-> at])

\* No shared word is open: it is excluded, part of a longer name, or all it stands for is out.
NothingIsOpen(message, profiles, out) ==
    \A at \in DOMAIN message :
        IsShared(<<message[at]>>, profiles) =>
            \/ InExclusion(message, at)
            \/ LongNamesOver(message, profiles, at) # {}
            \/ AliasOwners(<<message[at]>>, profiles) \subseteq out

IsNamedFreely(i, message, profiles) ==
    \E at \in DOMAIN message, name \in Names(profiles[i]) :
        OccursAt(name, message, at) /\ ~InExclusion(message, at) /\ IsNamedBy(i, name, profiles)

IsNamedAsExcluded(i, message, profiles) ==
    \E at \in DOMAIN message, name \in Names(profiles[i]) :
        OccursAt(name, message, at) /\ InExclusion(message, at)

\* What is chosen, if anything.  Accounts are matched only if the message names them outside
\* every exclusion, and none is while a shared word is open.  An account the message does not
\* name is chosen only alone, where one is asked for and every other profile is excluded.
\* None is both chosen and excluded, and none is excluded that no exclusion of the message
\* names.
ResolutionIsAuthorized(message, profiles, required) ==
    LET result == Resolve(message, profiles, required)
        chosen == {i \in DOMAIN profiles : profiles[i].account \in ToSet(result.matched)}
        out == {i \in DOMAIN profiles : profiles[i].account \in result.excluded}
    IN  /\ ToSet(result.matched) = {profiles[i].account : i \in chosen}
        /\ chosen \cap out = {}
        /\ \A i \in out : IsNamedAsExcluded(i, message, profiles)
        /\ result.status = "matched" =>
              /\ \A i \in chosen : IsNamedFreely(i, message, profiles)
              /\ NothingIsOpen(message, profiles, out)
        /\ result.status # "matched" /\ chosen # {} =>
              /\ required = "unknown" => IsAccountRequest(message)
              /\ \E i \in chosen : chosen = {i} /\ out = (DOMAIN profiles) \ {i}
==============================================================================
