--------------------------- MODULE MCConfiguration ---------------------------
(* Configuration for TLC: an option without a variable, one at the root of *)
(* its namespace, one per way a variable overrides, one two sections deep, *)
(* and the providers beside the default provider.                          *)
EXTENDS Configuration, TLC

CONSTANTS wrong  \* a value of another type

Ports == <<"app", <<"server", "port">>>>
Debug == <<"app", <<"debug">>>>
Origins == <<"app", <<"cors", "allow_origins">>>>
Iterations == <<"engines", <<"tools", "max_iterations">>>>
Ttl == <<"storage", <<"redis", "cache", "default_ttl">>>>

MCSubjects == {EnvironmentOption, Debug, Ports, Origins, Iterations, Ttl, ProvidersOption}

MCCandidates ==
     EnvironmentOption :> {"production", wrong}
  @@ Debug :> {TRUE, wrong}
  @@ Ports :> {0, 65535}
  @@ Origins :> {"example.com", ""}
  @@ Iterations :> {1, 20, 21}
  @@ Ttl :> {604800, wrong}
  @@ ProvidersOption :> {{"openai"}, {"ollama"}, {}}

(* Another key of the option's section, with its value. *)
Neighbor(o) ==
  IF o = ProvidersOption THEN [key |-> "default_provider", value |-> "ollama"]
  ELSE [key |-> "enabled", value |-> TRUE]

(* The document with one entry. *)
Nest(path, node) ==
  [at \in Sections(path) \cup {path} |-> IF at = path THEN node ELSE Mapping]

(* The documents about an option: it is given, its section is given with   *)
(* or without it, its section is empty or a value, or there is nothing.    *)
MCDocuments ==
  [o \in MCSubjects |->
     LET section == SectionOf(o[2])
         given   == {Nest(o[2], Leaf(value)) : value \in MCCandidates[o]}
         beside  == Nest(Append(section, Neighbor(o).key), Leaf(Neighbor(o).value))
     IN  {Empty, beside} \cup given \cup {g @@ beside : g \in given}
           \cup (IF section = <<>> THEN {}
                 ELSE {Nest(section, Mapping), Nest(section, Leaf("")),
                       Nest(section, Leaf(Null))})]

-----------------------------------------------------------------------------
(* deep_merge as the code has it, on mappings of mappings.                 *)

Dict(at) == [kind |-> "dict", at |-> at]

RECURSIVE DeepMerge(_, _)
DeepMerge(result, override) ==
  [key \in DOMAIN result \cup DOMAIN override |->
     IF key \notin DOMAIN override THEN result[key]
     ELSE IF key \in DOMAIN result /\ IsMapping(result[key]) /\ IsMapping(override[key])
     THEN Dict(DeepMerge(result[key].at, override[key].at))
     ELSE override[key]]

(* What a mapping of mappings has at each of its paths. *)
RECURSIVE Flat(_)
Flat(at) ==
  LET inside(key) == IF IsMapping(at[key]) THEN Flat(at[key].at)
                     ELSE [path \in {<<>>} |-> at[key]]
      paths == UNION {{<<key>> \o path : path \in DOMAIN inside(key)} : key \in DOMAIN at}
  IN  [path \in paths \cup {<<>>} |->
         IF path = <<>> THEN Mapping ELSE inside(Head(path))[Tail(path)]]

Mappings(keys, nodes) == UNION {[some -> nodes] : some \in SUBSET keys}
Level1(value) == Mappings({"x", "y"}, {Leaf(value)})
Level2(value) == Mappings({"x", "y"}, {Leaf(value)} \cup {Dict(at) : at \in Level1(value)})
Level3(value) == Mappings({"x"}, {Leaf(value)} \cup {Dict(at) : at \in Level2(value)})

(* Merge is deep_merge, on all mappings of up to three levels. *)
ASSUME MergeIsDeepMerge ==
  \A result \in Level2("base") \cup Level3("base"),
     override \in Level2("overlay") \cup Level3("overlay") :
    /\ IsDocument(Flat(result))
    /\ Merge(Flat(result), Flat(override)) = Flat(DeepMerge(result, override))
===============================================================================
