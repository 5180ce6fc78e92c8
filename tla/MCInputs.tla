------------------------------ MODULE MCInputs ------------------------------
(***************************************************************************)
(* M8Command for TLC: the settings, the directories, the catalogs and the  *)
(* routines that it meets, in one respect after the other.                 *)
(***************************************************************************)
EXTENDS M8Command

-----------------------------------------------------------------------------
\* The schema of a folder: a declared table with what hangs off it, and a table,
\* a routine and a trigger of somebody else.
MCObject == {"users", "users_code", "users_code_idx", "users_id_seq", "users_trg", "users_grant",
             "old", "old_id_seq", "old_trg", "archive"}
MCKind == [o \in MCObject |->
    CASE o \in {"users", "old"} -> "table"
      [] o = "users_code" -> "column"
      [] o = "users_code_idx" -> "index"
      [] o \in {"users_id_seq", "old_id_seq"} -> "sequence"
      [] o \in {"users_trg", "old_trg"} -> "trigger"
      [] o = "users_grant" -> "grant"
      [] o = "archive" -> "routine"]
MCNameOf == [o \in MCObject |-> IF o = "users_grant" THEN "none" ELSE o]
MCOn == [o \in MCObject |->
    CASE o \in {"users_code", "users_code_idx", "users_id_seq", "users_trg", "users_grant"} -> "users"
      [] o \in {"old_id_seq", "old_trg"} -> "old"
      [] OTHER -> o]
MCMentions == [o \in MCObject |-> IF o = "archive" THEN {"users"} ELSE {}]

\* The foreign key of the old table refers to a column of the declared one.
MCNeeds == [o \in MCObject |->
    CASE o \in {"users_code", "users_trg", "users_grant"} -> {"users"}
      [] o = "users_code_idx" -> {"users", "users_code"}
      [] o = "old" -> {"users_code"}
      [] o = "old_trg" -> {"old"}
      [] OTHER -> {}]
MCInternalLike == {"audit_m8"}

Closed(objects) == \A o \in objects : MCNeeds[o] \cup {MCOn[o]} \subseteq objects

Lives == {l \in SUBSET MCObject : Closed(l) /\ ({"old", "old_id_seq"} \cap l # {"old_id_seq"})
                                  /\ ("users" \in l <=> l # {})}
Declared == {{"users"}, {"users", "users_code", "users_code_idx", "users_id_seq"},
             {"users", "users_code", "users_trg"}, {"users", "users_grant", "users_code"}}
FilesOf(schemas) ==
    [schema : schemas, declared : Declared, commented : {{}, {"old"}}]

-----------------------------------------------------------------------------
Entry(folder, prefix, stamp, name) ==
    [folder |-> folder, prefix |-> prefix, stamp |-> stamp, name |-> name, sql |-> TRUE]
Ops(stamp, name)  == Entry("ops", "none", stamp, name)
Data(stamp, name) == Entry("data", "none", stamp, name)

\* Versions with and without a sequence number, twins, one in two folders, a
\* file without a version, one that is not SQL; the flat layout.
Directories ==
    {[dir |-> {Ops(<<2>>, 1), Ops(<<2, 10, 1>>, 2), Data(<<2>>, 3)}, toAdd |-> {Ops(<<1>>, 4), Ops(<<2>>, 5)}],
     [dir |-> {Ops(<<1, 1>>, 1), Ops(<<9>>, 2), Ops(<<1, 0>>, 3)}, toAdd |-> {Ops(<<1, 2>>, 4)}],
     [dir |-> {Ops(<<3>>, 1), Ops(<<3>>, 2), Ops(<<>>, 3), Entry("logic", "none", <<>>, 4),
               [Ops(<<4>>, 5) EXCEPT !.sql = FALSE]},
      toAdd |-> {Entry("top", "V", <<1>>, 6)}],
     [dir |-> {Entry("top", "V", <<1>>, 1), Entry("top", "V", <<2>>, 2), Entry("top", "R", <<>>, 3),
               Entry("top", "S", <<>>, 4), Entry("top", "none", <<5>>, 5), Entry("top", "V", <<>>, 6)},
      toAdd |-> {Entry("top", "V", <<1>>, 7)}]}

-----------------------------------------------------------------------------
\* Overloads, two of which have the same slug; another whose own name is that of
\* an overload's file; the same name in capitals; a view.
MCRoutine == {"f_text", "f_texts", "f_int", "f__text", "F", "v"}
MCBase == [o \in MCRoutine |->
    CASE o \in {"f_text", "f_texts", "f_int"} -> <<<<"f">>>>
      [] o = "f__text" -> <<<<"f">>, <<"text">>>>
      [] OTHER -> <<<<o>>>>]
MCSlug == [o \in MCRoutine |->
    CASE o \in {"f_text", "f_texts"} -> <<"text">>
      [] o = "f_int" -> <<"int">>
      [] OTHER -> <<"noargs">>]
MCPart == {<<w>> : w \in {"f", "text", "int", "noargs", "F", "v"}}
MCFolded == [p \in {<<"F">>} |-> <<"f">>]

-----------------------------------------------------------------------------
\* Nothing but the safety settings, or nothing but the target and a timeout.
Calm == [flag |-> [strict |-> FALSE, fail |-> FALSE, shadow |-> FALSE, url |-> FALSE,
                   database |-> FALSE, timeout |-> "unset"],
         env |-> [require |-> "unset", fail |-> "unset", shadow |-> TRUE, url |-> FALSE,
                  database |-> FALSE],
         file |-> [broken |-> FALSE, strict |-> FALSE, require |-> FALSE, fail |-> FALSE,
                   shadow |-> FALSE, url |-> FALSE, database |-> FALSE, timeout |-> "unset"]]

Safety ==
    {[Calm EXCEPT !.flag.fail = ff, !.flag.shadow = fs, !.env.require = er, !.env.fail = ef,
                  !.env.shadow = es, !.file.require = cr, !.file.fail = cf, !.file.broken = cb] :
        ff \in BOOLEAN, fs \in BOOLEAN, er \in EnvValues, ef \in EnvValues, es \in BOOLEAN,
        cr \in BOOLEAN, cf \in BOOLEAN, cb \in BOOLEAN}
Targets ==
    {[Calm EXCEPT !.flag.url = fu, !.flag.database = fd, !.env.url = eu, !.env.database = ed,
                  !.file.url = cu, !.file.database = cd] :
        fu \in BOOLEAN, fd \in BOOLEAN, eu \in BOOLEAN, ed \in BOOLEAN, cu \in BOOLEAN, cd \in BOOLEAN}
Timeouts ==
    {[Calm EXCEPT !.flag.timeout = ft, !.file.timeout = ct] : ft \in FlagTimeouts, ct \in FileTimeouts}

Stricts ==
    {[Calm EXCEPT !.flag.strict = fs, !.file.strict = cs] : fs \in BOOLEAN, cs \in BOOLEAN}

Strictness(strict) == [Calm EXCEPT !.flag.strict = strict, !.file.strict = strict]

Plain == [given |-> Calm, dir |-> {}, toAdd |-> {}, live |-> {}, routines |-> {},
          files |-> [schema |-> "app", declared |-> {}, commented |-> {}]]

Catalogs(schemas) ==
    {[Plain EXCEPT !.given = Strictness(s), !.files = f, !.live = l] :
        s \in BOOLEAN, f \in FilesOf(schemas), l \in Lives}

MCScenarios ==
    {[Plain EXCEPT !.given = g] : g \in Safety \cup Targets \cup Timeouts \cup Stricts}
    \cup {[Plain EXCEPT !.dir = d.dir, !.toAdd = d.toAdd] : d \in Directories}
    \cup {[Plain EXCEPT !.routines = r] : r \in SUBSET MCRoutine \ {{}}}
    \cup Catalogs({"app", "users", "audit_m8"})
=============================================================================
