-------------------------- MODULE MCDesktopStores --------------------------
(***************************************************************************)
(* What the desktop API keeps beside the session. These parts share no     *)
(* state, so that a behaviour of one is a behaviour of all of them: each   *)
(* behaviour of this module moves one part and leaves the others.          *)
(***************************************************************************)
EXTENDS SettingsStore, ConfigStore, VkCalls, SessionLogs, LinkConfigs, TLC

VARIABLE moving

Init ==
  /\ moving \in {"settings", "configs", "calls", "logs", "links"}
  /\ SettingsInit /\ ConfigInit /\ CallInit /\ LogInit /\ LinkInit
  /\ moving # "settings" => file.value = "default" /\ idFile = 1

Next ==
  /\ UNCHANGED moving
  /\ \/ moving = "settings" /\ SettingsNext /\ UNCHANGED <<configVars, callVars, logVars, linkVars>>
     \/ moving = "configs" /\ ConfigNext /\ UNCHANGED <<settingsVars, callVars, logVars, linkVars>>
     \/ moving = "calls" /\ CallNext /\ UNCHANGED <<settingsVars, configVars, logVars, linkVars>>
     \/ moving = "logs" /\ LogNext /\ UNCHANGED <<settingsVars, configVars, callVars, linkVars>>
     \/ moving = "links" /\ LinkNext /\ UNCHANGED <<settingsVars, configVars, callVars, logVars>>

Spec == Init /\ [][Next]_<<moving, settingsVars, configVars, callVars, logVars, linkVars>>

(***************************************************************************)
(* Links: lists of up to three units that are coded or not, the other      *)
(* parameters in a few forms each, and one of a kind for the rest.         *)
(***************************************************************************)
Units == {Raw(c) : c \in {"word", "other", "short", "+", "join", "?"}}
           \cup {Coded(c) : c \in {"word", "+", ",", "wide"}}
Texts == UNION {[1..n -> Units] : n \in 0..3}
Plain(c) == <<Raw(c)>>
Ends == <<Param("v", Plain("short")), Param("host", Plain("short")), Param("peer", Plain("short"))>>
Seven == Join([i \in 1..7 |-> <<Raw("word")>> \o [j \in 1..i |-> Raw("short")]], Raw("+"))

Sealed(separated, version2, usable, params) ==
  [scheme |-> "csqtt", form |-> "sealed", separated |-> separated, version2 |-> version2,
   usable |-> usable, params |-> params]
Open(form, params) == [scheme |-> "csqtt", form |-> form, params |-> params]
Secrets == {Plain("short"), <<Raw("short"), Coded("+")>>, <<Coded(" "), Raw("short"), Coded(" ")>>,
            <<Raw("short"), Coded(" "), Raw("short")>>, Plain("wide"), <<>>}

SealedLinks ==
  {Sealed(TRUE, TRUE, TRUE, Append(Ends, Param("hashes", t))) : t \in Texts \cup {Seven}}
  \cup {Sealed(s, v, u, Ends \o <<Param("password", p)>> \o more) :
          s, v, u \in BOOLEAN, p \in Secrets,
          more \in {<<>>, <<Param("token", Plain("short"))>>, <<Param("client", Plain("short"))>>,
                    <<Param("name", Plain("short"))>>, <<Param("password", <<>>)>>}}
  \cup {Sealed(TRUE, TRUE, TRUE, Append(Ends, Param("token", p))) : p \in Secrets}
  \cup {Sealed(TRUE, TRUE, TRUE, Ends \o <<Param("token", Plain("short")),
                                          Param("hashes", Plain("word"))>>)}
OpenLinks ==
  {Open("query", Ends \o <<Param("password", Plain("short")), Param("hashes", t)>>) :
     t \in Texts \cup {Seven}}
  \cup {Open("query", Ends), Open("other", <<>>),
        Open("userinfo", <<Param("host", Plain("short")), Param("password", <<>>)>>)}
OtherLinks ==
  {[scheme |-> s, form |-> "config", params |-> ps] :
     s \in {"paperflux", "openflux", "OLCRTC", "ToTS", "vless"},
     ps \in {<<>>, <<Param("transport", Plain("short")), Param("url", <<Raw("short"), Raw("+")>>)>>,
             <<Param("peer", Plain("short")),
               Param("hashes", <<Raw("word"), Raw("+"), Raw("other")>>)>>}}

MCLink == SealedLinks \cup OpenLinks \cup OtherLinks
MCTyped == {<<>>, <<" ", ",">>, <<"word">>, <<"other", " ", "short", ",", " ", "word">>}
MCCallHashes == <<<<"word">>, <<"other", "short">>>>

Symmetry == Permutations(Handler)
  \cup Permutations(Client) \cup Permutations(Call) \cup Permutations(Starter)
=============================================================================
