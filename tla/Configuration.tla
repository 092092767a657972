--------------------------- MODULE Configuration ----------------------------
(***************************************************************************)
(* CAutomation::open and doLoadConfig (common/automation.cpp): the JSON     *)
(* file is parsed, then each key is looked up, tested for its type and      *)
(* assigned to a member inside a try block of its own, one after the other; *)
(* the worker thread is started whatever became of the file.                *)
(* Which member a key is assigned to is read from the code. The README and  *)
(* the sample file spell the keys of the events otherwise than the code: a  *)
(* file may have keys of either spelling.                                   *)
(***************************************************************************)
EXTENDS Naturals, Sequences

CONSTANTS
    Configs     \* the contents a file may have: a value for each key that it may name

VARIABLES
    m_j_config, \* the contents of the file
    parsed,     \* whether the file could be read and parsed
    next,       \* the number of the key that is looked up next
    member,     \* the members of CAutomation that doLoadConfig may assign
    state       \* "loading" or "started"

vars == <<m_j_config, parsed, next, member, state>>

\* The keys, in the order in which they are looked up.
Keys == <<"debug-enable", "write-enable", "zone", "subzone", "longitude", "latitude",
          "sunrise-enable", "sunrise-twilight-enable", "sunset-enable",
          "sunset-twilight-enable">>

Key == {Keys[i] : i \in DOMAIN Keys}
NumberKeys == {"zone", "subzone", "longitude", "latitude"}
FlagKeys == {"sunrise-enable", "sunrise-twilight-enable", "sunset-enable",
             "sunset-twilight-enable"}

\* The keys of the events in README.md and debug/conf_standard.json.
DocumentedKeys == {"enable-sunrise", "enable-sunrise-twilight", "enable-sunset",
                   "enable-sunset-twilight"}

FileKey == Key \cup DocumentedKeys

\* A value of the file: a boolean, a number, or a string as in the sample file.
Value == {"absent", "true", "false", "number", "string"}
Boolean == {"true", "false"}

ASSUME ConfigurationAssumption == Configs \subseteq [FileKey -> Value]

\* Mutant of Target: the copy of a block still assigns the member of the original.
TargetShared == [k \in Key |->
    CASE k \in {"debug-enable", "write-enable", "zone", "subzone"} -> "m_bDebug"
      [] k = "longitude" -> "m_longitude"
      [] k = "latitude" -> "m_latitude"
      [] k = "sunrise-enable" -> "m_bSunRiseEvent"
      [] k = "sunrise-twilight-enable" -> "m_bSunRiseTwilightEvent"
      [] k \in {"sunset-enable", "sunset-twilight-enable"} -> "m_bSunSetEvent"]

\* The member that each key's value is assigned to.
Target == [k \in Key |->
    CASE k \in {"debug-enable", "write-enable", "zone", "subzone"} -> "m_bDebug"
      [] k = "longitude" -> "m_longitude"
      [] k = "latitude" -> "m_latitude"
      [] k = "sunrise-enable" -> "m_bSunRiseEvent"
      [] k = "sunrise-twilight-enable" -> "m_bSunRiseTwilightEvent"
      [] k = "sunset-enable" -> "m_bSunSetEvent"
      [] k = "sunset-twilight-enable" -> "m_bSunSetTwilightEvent"]

Flags == {"m_bSunRiseEvent", "m_bSunRiseTwilightEvent", "m_bSunSetEvent",
          "m_bSunSetTwilightEvent"}
Members == {"m_bDebug", "m_bWrite", "m_longitude", "m_latitude"} \cup Flags

\* What the constructor sets: a place of its own, and every event enabled.
Default == [m \in Members |->
    IF m \in {"m_longitude", "m_latitude"} THEN "Los"
    ELSE IF m \in Flags THEN "true"
    ELSE "false"]

TypeOK ==
    /\ m_j_config \in [FileKey -> Value]
    /\ parsed \in BOOLEAN
    /\ next \in 1..(Len(Keys) + 1)
    /\ member \in [Members -> Boolean \cup {"Los"}]
    /\ \A m \in Flags \cup {"m_bDebug", "m_bWrite"} : member[m] \in Boolean
    /\ state \in {"loading", "started"}

Init ==
    /\ m_j_config \in Configs
    /\ parsed = FALSE
    /\ next = 1
    /\ member = Default
    /\ state = "loading"

-----------------------------------------------------------------------------
\* operator>> throws parse_error, also when there is no file: doLoadConfig
\* returns false, which open() only logs before it starts the worker.
ParseFails ==
    /\ ~parsed
    /\ state = "loading"
    /\ state' = "started"
    /\ UNCHANGED <<m_j_config, parsed, next, member>>

ParseSucceeds ==
    /\ ~parsed
    /\ state = "loading"
    /\ parsed' = TRUE
    /\ UNCHANGED <<m_j_config, next, member, state>>

\* The try block of the next key.
Lookup(k) ==
    /\ parsed
    /\ next <= Len(Keys)
    /\ k = Keys[next]
    /\ next' = next + 1
    /\ UNCHANGED <<m_j_config, parsed, state>>

\* contains() and is_boolean() or is_number().
PassesTest(k) ==
    IF k \in NumberKeys THEN m_j_config[k] = "number" ELSE m_j_config[k] \in Boolean

DefaultUsed(k) ==
    /\ Lookup(k)
    /\ ~PassesTest(k)
    /\ UNCHANGED member

Assigned(k) ==
    /\ Lookup(k)
    /\ PassesTest(k)
    /\ m_j_config[k] \in Boolean
    /\ member' = [member EXCEPT ![Target[k]] = m_j_config[k]]

\* Mutant of GetThrows: get<bool>() of a number yields the number.
GetConverts(k) ==
    /\ Lookup(k)
    /\ PassesTest(k)
    /\ m_j_config[k] = "number"
    /\ member' = [member EXCEPT ![Target[k]] = "number"]

\* Mutant of GetThrows: there is one try block around all keys.
GetAborts(k) ==
    /\ parsed
    /\ next <= Len(Keys)
    /\ k = Keys[next]
    /\ m_j_config[k] = "number"
    /\ PassesTest(k)
    /\ next' = Len(Keys) + 1
    /\ UNCHANGED <<m_j_config, parsed, state, member>>

\* get<bool>() of a number throws, and the key's own handler catches it.
GetThrows(k) ==
    /\ Lookup(k)
    /\ PassesTest(k)
    /\ m_j_config[k] = "number"
    /\ UNCHANGED member

\* doLoadConfig returns true and open() starts the worker.
StartWorker ==
    /\ next = Len(Keys) + 1
    /\ state = "loading"
    /\ state' = "started"
    /\ UNCHANGED <<m_j_config, parsed, next, member>>

Next ==
    \/ ParseFails
    \/ ParseSucceeds
    \/ \E k \in Key : DefaultUsed(k) \/ Assigned(k) \/ GetThrows(k)
    \/ StartWorker

Spec == Init /\ [][Next]_vars

-----------------------------------------------------------------------------
(* Properties, of what the worker thread finds when it starts.              *)

\* The value a key has for the program: that of a file that could be parsed.
Given(k) == IF parsed THEN m_j_config[k] ELSE "absent"

Chosen(value, default) == IF value \in Boolean THEN value ELSE default

\* The event that a key enables, by its name, in the code or in the documentation.
EventFlag == [k \in FlagKeys \cup DocumentedKeys |->
    CASE k \in {"sunrise-enable", "enable-sunrise"} -> "m_bSunRiseEvent"
      [] k \in {"sunrise-twilight-enable", "enable-sunrise-twilight"} -> "m_bSunRiseTwilightEvent"
      [] k \in {"sunset-enable", "enable-sunset"} -> "m_bSunSetEvent"
      [] k \in {"sunset-twilight-enable", "enable-sunset-twilight"} -> "m_bSunSetTwilightEvent"]

\* What a file means to this program, whatever else is missing, of the wrong
\* type or throws in it. Of the event keys the spelling of the code counts, and
\* each enables the event of its name and no other; debug output is what
\* write-enable says, or else debug-enable (both blocks assign m_bDebug);
\* m_bWrite and the place are never configured.
MembersAsConfigured ==
    state = "started" =>
        /\ \A k \in FlagKeys : member[EventFlag[k]] = Chosen(Given(k), "true")
        /\ member["m_bDebug"] = Chosen(Given("write-enable"), Chosen(Given("debug-enable"), "false"))
        /\ member["m_bWrite"] = "false"
        /\ member["m_longitude"] = "Los" /\ member["m_latitude"] = "Los"

\* README.md: "Enter the longitude as a decimal value for the place you want the
\* calculations to be performed for", and the same for the latitude; "Enable the
\* sunrise event by setting this value to "true". Disable by setting it to
\* "false"" under the heading enable-sunrise, and the same for the other events.
AsDocumented ==
    state = "started" =>
        /\ Given("longitude") = "number" => member["m_longitude"] # "Los"
        /\ Given("latitude") = "number" => member["m_latitude"] # "Los"
        /\ \A k \in DocumentedKeys : Given(k) \in Boolean => member[EventFlag[k]] = Given(k)
=============================================================================
