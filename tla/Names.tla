------------------------------- MODULE Names -------------------------------
(***************************************************************************)
(* How a struct name in a mapping finds a type: by NameFilter (dwarf.py)   *)
(* while a build is read, and by _NameIndex (dictionary.py) in the type    *)
(* file afterwards.  A name is the sequence of its parts between "::"; a   *)
(* template's own name may have several.                                   *)
(***************************************************************************)
EXTENDS TypeRegistry

CONSTANT LowerCase      \* part of a name -> the part in lower case

\* rsplit("::", 1)[-1]
LastPart(name) == <<name[Len(name)]>>

Lower(name) == [i \in DOMAIN name |-> LowerCase[name[i]]]

TIER_EXACT == 0
TIER_TAIL == 1
TIER_CASE == 2

\* What a type's own name is looked up in before it is qualified.
Quick(wanted) == UNION {{w, LastPart(w), Lower(w), Lower(LastPart(w))} : w \in wanted}

Wants(wanted, own) == {own, Lower(own)} \cap Quick(wanted) # {}

\* The rules by which a mapping name takes a type, by the type's qualified name.
Tiers(w, qualified) ==
    {t \in {TIER_EXACT, TIER_TAIL, TIER_CASE} :
        \/ t = TIER_EXACT /\ w = qualified
        \/ t = TIER_TAIL /\ w = LastPart(qualified)
        \/ t = TIER_CASE /\ Lower(w) \in {Lower(qualified), Lower(LastPart(qualified))}}

Matches(wanted, qualified) == {m \in wanted \X {TIER_EXACT, TIER_TAIL, TIER_CASE} :
                                  m[2] \in Tiers(m[1], qualified)}

\* The types a mapping name came to, by its best rule.
Resolution(recorded, w) ==
    {r.key : r \in {s \in recorded : /\ s.wanted = w
                                     /\ \A o \in recorded : o.wanted = w => s.tier <= o.tier}}

-----------------------------------------------------------------------------

\* The types a name without its namespace, or in another case, may mean.
Indexed(types) == {k \in DOMAIN types : /\ types[k].kind \in {"struct", "union", "typedef"}
                                        /\ ~IsSynthetic(k)}

\* A bug: the index does not fold case.
FoundInCase(types, w) ==
    IF w \in DOMAIN types THEN {w} ELSE {k \in Indexed(types) : LastPart(k) = w}

\* The candidates of the first table that has any: one is the answer, several
\* are an ambiguity, none an unknown name.
Found(types, w) ==
    LET byTail  == {k \in Indexed(types) : LastPart(k) = w}
        byLower == {k \in Indexed(types) : Lower(w) \in {Lower(k), Lower(LastPart(k))}}
    IN  IF w \in DOMAIN types THEN {w} ELSE IF byTail # {} THEN byTail ELSE byLower
=============================================================================
