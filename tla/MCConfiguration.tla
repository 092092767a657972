-------------------------- MODULE MCConfiguration ---------------------------
(* Configuration on the files that set at most three keys, and on those      *)
(* written after the documentation.                                          *)
EXTENDS Configuration, FiniteSetsExt

MCConfigs ==
    {[k \in FileKey |-> IF k \in DOMAIN given THEN given[k] ELSE "absent"] :
        given \in UNION {[S -> Value \ {"absent"}] :
                            S \in UNION {kSubset(n, FileKey) : n \in 0..3}}}

\* The keys of the sample file, with numbers and booleans for its strings, and
\* at least one event disabled.
MCDocumented ==
    {[k \in FileKey |->
        CASE k \in DocumentedKeys -> flag[k]
          [] k \in NumberKeys -> "number"
          [] k \in FlagKeys -> "absent"
          [] OTHER -> "true"] :
        flag \in {f \in [DocumentedKeys -> Boolean] : "false" \in {f[k] : k \in DocumentedKeys}}}
=============================================================================
