----------------------------- MODULE ArgNormalizer -----------------------------
(***************************************************************************)
(* ArgNormalizerActor (crates/actors/src/arg_normalizer.rs): the arguments *)
(* of a call, as the model wrote them, are brought into the form the tools *)
(* declare.  And args_to_flags (tool_router.rs), which makes the command   *)
(* line of them.                                                           *)
(*                                                                         *)
(* The arguments are a JSON object, here the sequence of its entries in    *)
(* the order they were written.  A value is named for what it is: on and   *)
(* off are the booleans, "true" and "false" the strings of that text.      *)
(* Arguments that are no object count as none.                             *)
(***************************************************************************)
EXTENDS Naturals, SequencesExt

CONSTANTS Declared, \* the tools, and each flag as the script's main declares it
          Kebab     \* key.replace('_', "-")

ASSUME KebabAssumption ==
    \A key \in DOMAIN Kebab : Kebab[key] \in DOMAIN Kebab /\ Kebab[Kebab[key]] = Kebab[key]

BoolTexts == [true |-> "on", false |-> "off"]

Keys(args) == {args[i][1] : i \in DOMAIN args}

\* The object as a function from its keys.
AsMap(args) == [key \in Keys(args) |-> (CHOOSE entry \in Range(args) : entry[1] = key)[2]]

-----------------------------------------------------------------------------
\* parse_tool_flags: a flag with neither a type nor a default is a switch.
FlagType(flag) ==
    CASE flag.type # "none" -> flag.type
      [] flag.type = "none" /\ flag.default -> "string"
      [] OTHER -> "switch"

\* The tools, each with the types of its flags.
Registry ==
    [tool \in DOMAIN Declared |->
        [name \in DOMAIN Declared[tool] |-> FlagType(Declared[tool][name])]]

\* A key with underscores makes way for the flag it means.
Rename(map, key, value) ==
    IF Kebab[key] = key THEN map
    ELSE [flag \in (DOMAIN map \ {key}) \cup {Kebab[key]} |->
             IF flag = Kebab[key] THEN value ELSE map[flag]]

\* Mutant: the flag is looked up under the key as it was written.
IsBoolTextAsWritten(tool, key, value) ==
    /\ key \in DOMAIN Registry[tool]
    /\ Registry[tool][key] \in {"bool", "switch"}
    /\ value \in DOMAIN BoolTexts

IsBoolText(tool, key, value) ==
    /\ Kebab[key] \in DOMAIN Registry[tool]
    /\ Registry[tool][Kebab[key]] \in {"bool", "switch"}
    /\ value \in DOMAIN BoolTexts

\* One turn of the loop over the entries of the original.
NormalizeEntry(tool, map, key, value) ==
    LET renamed == Rename(map, key, value)
    IN  IF IsBoolText(tool, key, value)
        THEN [renamed EXCEPT ![Kebab[key]] = BoolTexts[value]]
        ELSE renamed

\* The arguments of an unknown tool stay as they are.
normalize(tool, args) ==
    LET after[i \in 0 .. Len(args)] ==
            IF i = 0 THEN AsMap(args)
            ELSE NormalizeEntry(tool, after[i - 1], args[i][1], args[i][2])
    IN  IF tool \in DOMAIN Registry THEN after[Len(args)] ELSE AsMap(args)

\* What is written after main: a flag that is off or null is left out.
args_to_flags(map) ==
    {<<Kebab[key], map[key]>> : key \in {k \in DOMAIN map : map[k] \notin {"off", "null"}}}
=============================================================================
