------------------------ MODULE ConfigurationProofs -------------------------
(***************************************************************************)
(* What every member is when the worker starts, for every set of files:     *)
(* each try block of doLoadConfig concerns one key alone, and the blocks of *)
(* two keys assign one member only in the order in which they stand.        *)
(***************************************************************************)
EXTENDS Configuration, TLAPS

\* The keys before the next one have been looked up.
Seen(k) == IF \E i \in 1..10 : i < next /\ Keys[i] = k THEN m_j_config[k] ELSE "absent"

\* Each member is what the keys looked up so far make of it.
MembersSettled ==
    /\ \A k \in FlagKeys : member[EventFlag[k]] = Chosen(Seen(k), "true")
    /\ member["m_bDebug"] = Chosen(Seen("write-enable"), Chosen(Seen("debug-enable"), "false"))
    /\ member["m_bWrite"] = "false"
    /\ member["m_longitude"] = "Los" /\ member["m_latitude"] = "Los"

\* The keys are looked up in a file that was parsed, and all before the start.
LookupsInOrder ==
    /\ ~parsed => next = 1
    /\ state = "started" /\ parsed => next = Len(Keys) + 1

ConfigIInv == TypeOK /\ LookupsInOrder /\ MembersSettled

-----------------------------------------------------------------------------
\* The ten keys: no two are the same, and write-enable comes after debug-enable.
LEMMA KeyFacts ==
    /\ DOMAIN Keys = 1..10 /\ Len(Keys) = 10
    /\ \A i \in 1..10 : Keys[i] \in Key
    /\ \A k \in Key : \E i \in 1..10 : Keys[i] = k
    /\ \A i, j \in 1..10 : Keys[i] = Keys[j] => i = j
    /\ Keys[1] = "debug-enable" /\ Keys[2] = "write-enable"
    /\ FlagKeys \subseteq Key /\ FlagKeys \cap NumberKeys = {}
    /\ Key \subseteq FileKey
BY DEF Keys, Key, FlagKeys, NumberKeys, FileKey

\* Each key has a member of its type; an event's flag is the target of its own
\* key and of no other.
LEMMA TargetFacts ==
    /\ \A k \in Key : Target[k] \in Members
    /\ \A k \in Key \ {"longitude", "latitude"} : Target[k] \in Flags \cup {"m_bDebug", "m_bWrite"}
    /\ \A k \in FlagKeys : Target[k] = EventFlag[k] /\ Target[k] \in Flags
    /\ \A k \in FlagKeys, j \in Key : Target[j] = Target[k] => j = k
    /\ \A k \in Key \ (FlagKeys \cup NumberKeys) :
           k \in {"debug-enable", "write-enable"} /\ Target[k] = "m_bDebug"
    /\ Flags \subseteq Members
    /\ {"m_bDebug", "m_bWrite", "m_longitude", "m_latitude"} \subseteq Members
    /\ Flags \cap {"m_longitude", "m_latitude", "m_bDebug", "m_bWrite"} = {}
<1>1. Key = {"debug-enable", "write-enable", "zone", "subzone", "longitude", "latitude",
             "sunrise-enable", "sunrise-twilight-enable", "sunset-enable",
             "sunset-twilight-enable"}
    BY KeyFacts DEF Keys, Key
<1>2. /\ Target["debug-enable"] = "m_bDebug"
      /\ Target["write-enable"] = "m_bDebug"
      /\ Target["zone"] = "m_bDebug"
      /\ Target["subzone"] = "m_bDebug"
      /\ Target["longitude"] = "m_longitude"
      /\ Target["latitude"] = "m_latitude"
      /\ Target["sunrise-enable"] = "m_bSunRiseEvent"
      /\ Target["sunrise-twilight-enable"] = "m_bSunRiseTwilightEvent"
      /\ Target["sunset-enable"] = "m_bSunSetEvent"
      /\ Target["sunset-twilight-enable"] = "m_bSunSetTwilightEvent"
    BY <1>1 DEF Target
<1>3. /\ EventFlag["sunrise-enable"] = "m_bSunRiseEvent"
      /\ EventFlag["sunrise-twilight-enable"] = "m_bSunRiseTwilightEvent"
      /\ EventFlag["sunset-enable"] = "m_bSunSetEvent"
      /\ EventFlag["sunset-twilight-enable"] = "m_bSunSetTwilightEvent"
    BY DEF EventFlag, FlagKeys, DocumentedKeys
<1> QED
    BY <1>1, <1>2, <1>3 DEF FlagKeys, NumberKeys, Members, Flags

LEMMA ConfigInit == Init => ConfigIInv
<1> SUFFICES ASSUME Init
             PROVE  ConfigIInv
    OBVIOUS
<1>1. /\ \A m \in Members : Default[m] \in Boolean \cup {"Los"}
      /\ \A m \in Flags : Default[m] = "true"
      /\ Default["m_bDebug"] = "false" /\ Default["m_bWrite"] = "false"
      /\ Default["m_longitude"] = "Los" /\ Default["m_latitude"] = "Los"
    BY TargetFacts DEF Default, Boolean
<1>2. TypeOK
    <2>1. Default \in [Members -> Boolean \cup {"Los"}]
        BY <1>1 DEF Default
    <2>2. \A m \in Flags \cup {"m_bDebug", "m_bWrite"} : Default[m] \in Boolean
        BY <1>1 DEF Boolean
    <2>3. m_j_config \in [FileKey -> Value]
        BY ConfigurationAssumption DEF Init, ConfigurationAssumption
    <2>4. next \in 1..(Len(Keys) + 1)
        BY KeyFacts DEF Init
    <2>5. parsed \in BOOLEAN /\ member = Default /\ state \in {"loading", "started"}
        BY DEF Init
    <2> QED
        BY <2>1, <2>2, <2>3, <2>4, <2>5 DEF TypeOK
<1>3. MembersSettled
    <2>1. \A k : Seen(k) = "absent"
        BY DEF Init, Seen
    <2> QED
        BY <1>1, <2>1, TargetFacts DEF Init, MembersSettled, Chosen, Boolean
<1> QED
    BY <1>2, <1>3 DEF Init, ConfigIInv, LookupsInOrder

\* One key: it is seen now, the others are seen or not as before.
LEMMA SeenStep ==
    ASSUME ConfigIInv, NEW k \in Key, Lookup(k)
    PROVE  /\ next \in 1..10 /\ k = Keys[next] /\ next' = next + 1
           /\ UNCHANGED <<m_j_config, parsed, state>> /\ parsed
           /\ Seen(k)' = m_j_config[k] /\ Seen(k) = "absent"
           /\ \A j \in Key \ {k} : Seen(j)' = Seen(j)
           /\ k = "debug-enable" => Seen("write-enable") = "absent"
<1>1. /\ next \in 1..10 /\ k = Keys[next] /\ next' = next + 1
      /\ UNCHANGED <<m_j_config, parsed, state>> /\ parsed
    BY KeyFacts DEF ConfigIInv, TypeOK, Lookup
<1>2. Seen(k)' = m_j_config[k]
    BY <1>1 DEF Seen
<1>3. Seen(k) = "absent"
    BY <1>1, KeyFacts DEF Seen
<1>4. ASSUME NEW j \in Key \ {k}
      PROVE  Seen(j)' = Seen(j)
    <2>1. \A i \in 1..10 : Keys[i] = j => i # next
        BY <1>1, <1>4
    <2>2. \A i \in 1..10 : Keys[i] = j => (i < next' <=> i < next)
        BY <1>1, <2>1
    <2>3. (\E i \in 1..10 : i < next' /\ Keys[i] = j) <=> (\E i \in 1..10 : i < next /\ Keys[i] = j)
        BY <2>2
    <2>4. m_j_config' = m_j_config
        BY <1>1
    <2> QED
        BY <2>3, <2>4 DEF Seen
<1>5. k = "debug-enable" => Seen("write-enable") = "absent"
    <2>1. ASSUME k = "debug-enable"
          PROVE  next = 1
        <3>1. 1 \in 1..10 /\ Keys[1] = Keys[next]
            BY <1>1, <2>1, KeyFacts
        <3>2. \A i, j \in 1..10 : Keys[i] = Keys[j] => i = j
            BY KeyFacts
        <3> QED
            BY <1>1, <3>1, <3>2
    <2> QED
        BY <2>1 DEF Seen
<1> QED
    BY <1>1, <1>2, <1>3, <1>4, <1>5

\* One key: only its own member may change, and it is settled.
LEMMA KeyStep ==
    ASSUME ConfigIInv, NEW k \in Key, DefaultUsed(k) \/ Assigned(k) \/ GetThrows(k)
    PROVE  ConfigIInv'
<1> USE KeyFacts, TargetFacts
<1>1. /\ next \in 1..10 /\ k = Keys[next] /\ next' = next + 1
      /\ UNCHANGED <<m_j_config, parsed, state>> /\ parsed
      /\ Seen(k)' = m_j_config[k] /\ Seen(k) = "absent"
      /\ \A j \in Key \ {k} : Seen(j)' = Seen(j)
      /\ k = "debug-enable" => Seen("write-enable") = "absent"
    BY SeenStep DEF DefaultUsed, Assigned, GetThrows
<1>2. \/ member' = member /\ (k \notin NumberKeys => m_j_config[k] \notin Boolean)
      \/ /\ m_j_config[k] \in Boolean /\ k \notin NumberKeys
         /\ member' = [member EXCEPT ![Target[k]] = m_j_config[k]]
    BY DEF DefaultUsed, Assigned, GetThrows, PassesTest, NumberKeys, Boolean
<1>3. TypeOK'
    <2>1. member' \in [Members -> Boolean \cup {"Los"}]
        BY <1>2 DEF ConfigIInv, TypeOK
    <2>2. \A m \in Flags \cup {"m_bDebug", "m_bWrite"} : member'[m] \in Boolean
        BY <1>2 DEF ConfigIInv, TypeOK
    <2> QED
        BY <1>1, <2>1, <2>2 DEF ConfigIInv, TypeOK
<1>4. LookupsInOrder'
    BY <1>1 DEF ConfigIInv, LookupsInOrder
<1>5. ASSUME NEW j \in FlagKeys
      PROVE  member'[EventFlag[j]] = Chosen(Seen(j)', "true")
    <2>1. member[EventFlag[j]] = Chosen(Seen(j), "true") /\ EventFlag[j] \in Members
        BY DEF ConfigIInv, MembersSettled
    <2>2. CASE j = k
        <3>1. \/ member' = member /\ m_j_config[k] \notin Boolean
              \/ m_j_config[k] \in Boolean /\ member'[EventFlag[j]] = m_j_config[k]
            BY <1>2, <2>1, <2>2 DEF ConfigIInv, TypeOK
        <3> QED
            BY <1>1, <2>1, <2>2, <3>1 DEF Chosen, Boolean
    <2>3. CASE j # k
        <3>1. Target[k] # EventFlag[j]
            BY <2>3
        <3>2. member'[EventFlag[j]] = member[EventFlag[j]]
            BY <1>2, <2>1, <3>1 DEF ConfigIInv, TypeOK
        <3> QED
            BY <1>1, <2>1, <2>3, <3>2
    <2> QED
        BY <2>2, <2>3
<1>6. member'["m_bDebug"] =
          Chosen(Seen("write-enable")', Chosen(Seen("debug-enable")', "false"))
    <2>1. /\ member["m_bDebug"] = Chosen(Seen("write-enable"), Chosen(Seen("debug-enable"), "false"))
          /\ "write-enable" \in Key /\ "debug-enable" \in Key
        BY DEF ConfigIInv, MembersSettled
    <2>2. CASE k \in {"write-enable", "debug-enable"}
        <3>1. k \notin NumberKeys /\ Target[k] = "m_bDebug"
            BY <2>2 DEF NumberKeys, FlagKeys
        <3>2. \/ member' = member /\ m_j_config[k] \notin Boolean
              \/ m_j_config[k] \in Boolean /\ member'["m_bDebug"] = m_j_config[k]
            BY <1>2, <3>1 DEF ConfigIInv, TypeOK
        <3>3. CASE k = "write-enable"
            <4>1. Seen("debug-enable")' = Seen("debug-enable") /\ Seen("write-enable") = "absent"
                BY <1>1, <2>1, <3>3
            <4> QED
                BY <1>1, <2>1, <3>2, <3>3, <4>1 DEF Chosen, Boolean
        <3>4. CASE k = "debug-enable"
            <4>1. /\ Seen("write-enable")' = "absent" /\ Seen("write-enable") = "absent"
                  /\ Seen("debug-enable") = "absent" /\ Seen("debug-enable")' = m_j_config[k]
                BY <1>1, <2>1, <3>4
            <4> QED
                BY <2>1, <3>2, <3>4, <4>1 DEF Chosen, Boolean
        <3> QED
            BY <2>2, <3>3, <3>4
    <2>3. CASE k \notin {"write-enable", "debug-enable"}
        <3>1. member'["m_bDebug"] = member["m_bDebug"]
            BY <1>2, <2>3 DEF ConfigIInv, TypeOK
        <3>2. /\ Seen("write-enable")' = Seen("write-enable")
              /\ Seen("debug-enable")' = Seen("debug-enable")
            BY <1>1, <2>1, <2>3
        <3> QED
            BY <2>1, <3>1, <3>2
    <2> QED
        BY <2>2, <2>3
<1>7. /\ member'["m_bWrite"] = "false"
      /\ member'["m_longitude"] = "Los" /\ member'["m_latitude"] = "Los"
    <2>1. k \notin NumberKeys => Target[k] \in Flags \cup {"m_bDebug"}
        OBVIOUS
    <2> QED
        BY <1>2, <2>1 DEF ConfigIInv, TypeOK, MembersSettled
<1> QED
    BY <1>3, <1>4, <1>5, <1>6, <1>7 DEF ConfigIInv, MembersSettled

LEMMA ConfigStep == ConfigIInv /\ [Next]_vars => ConfigIInv'
<1> SUFFICES ASSUME ConfigIInv, [Next]_vars
             PROVE  ConfigIInv'
    OBVIOUS
<1> USE DEF ConfigIInv, TypeOK, LookupsInOrder, MembersSettled, Seen
<1>1. CASE ParseFails
    BY <1>1 DEF ParseFails
<1>2. CASE ParseSucceeds
    BY <1>2 DEF ParseSucceeds
<1>3. CASE StartWorker
    BY <1>3 DEF StartWorker
<1>4. CASE UNCHANGED vars
    BY <1>4 DEF vars
<1> QED
    BY <1>1, <1>2, <1>3, <1>4, KeyStep DEF Next

\* For any set of files, each member is always what the keys looked up so far
\* make of it: doLoadConfig's blocks, one after the other.
THEOREM ConfigInvariance == Spec => []ConfigIInv
BY ConfigInit, ConfigStep, PTL DEF Spec

\* Every variable keeps its type: a number never gets into a flag.
THEOREM ConfigTypes == Spec => []TypeOK
<1>1. ConfigIInv => TypeOK
    BY DEF ConfigIInv
<1> QED
    BY <1>1, ConfigInvariance, PTL

\* When the worker starts, each member is what the file means to the code:
\* every event's flag by its own key alone, m_bDebug by the last of two keys,
\* m_bWrite and the place by none.
THEOREM MembersConfigured == Spec => []MembersAsConfigured
<1>1. ConfigIInv => MembersAsConfigured
    <2> SUFFICES ASSUME ConfigIInv, state = "started"
                 PROVE  /\ \A k \in FlagKeys : member[EventFlag[k]] = Chosen(Given(k), "true")
                        /\ member["m_bDebug"] = Chosen(Given("write-enable"),
                                                       Chosen(Given("debug-enable"), "false"))
                        /\ member["m_bWrite"] = "false"
                        /\ member["m_longitude"] = "Los" /\ member["m_latitude"] = "Los"
        BY DEF MembersAsConfigured
    <2>1. ASSUME NEW k \in Key
          PROVE  Given(k) = Seen(k)
        <3>1. PICK i \in 1..10 : Keys[i] = k
            BY KeyFacts
        <3>2. next = IF parsed THEN 11 ELSE 1
            BY KeyFacts DEF ConfigIInv, TypeOK, LookupsInOrder
        <3> QED
            BY <3>1, <3>2 DEF Given, Seen
    <2>2. FlagKeys \subseteq Key /\ "write-enable" \in Key /\ "debug-enable" \in Key
        BY KeyFacts
    <2> QED
        BY <2>1, <2>2 DEF ConfigIInv, MembersSettled
<1> QED
    BY <1>1, ConfigInvariance, PTL
=============================================================================
