---------------------------- MODULE LinkConfigs ----------------------------
(***************************************************************************)
(* From a link to the arguments of a core on the desktop: configs_parse    *)
(* and configs_create (config.rs), the settings and the VK calls that      *)
(* vpn_connect brings in (api.rs), and build_args (protocol.rs).           *)
(*                                                                         *)
(* A capital letter in the scheme and the Lua plugin are left out.         *)
(***************************************************************************)
EXTENDS CsqttLink

CONSTANTS
  Link,       \* links a user may paste
  Requested,  \* protocols the form may name
  Typed,      \* lists of hashes a user may type, in a config or in the settings
  CallHashes  \* hashes of the calls VK has started, in the order of their start

VARIABLES
  link, protocol,   \* what has been parsed, NoLink after a form; what was asked for
  item,             \* the ConfigItem it has become, or Refused
  settings, args    \* of the last connect, NoArgs before it

linkVars == <<link, protocol, item, settings, args>>

NoLink == [scheme |-> "none"]

\* What stands before "@" and behind it is no query. A call counts only with a
\* hash (is_success), a segment of a URL; there are at most six calls
\* (call_count_for_workers).
ASSUME LinkAssumption ==
  /\ NoLink \notin Link
  /\ \A l \in Link : /\ l.params \in Seq(Parameter)
                     /\ l.form = "userinfo" => "hashes" \notin Keys(l.params)
  /\ Typed \subseteq Seq(Char)
  /\ CallHashes \in Seq(Seq(Char \ {",", " "}) \ {<<>>}) /\ Len(CallHashes) <= MaxHashes

NoArgs == [core |-> "none"]

\* ConfigItem::default, with the fields that reach a core.
Blank == [protocol |-> "CSQTT", peer |-> <<>>, password |-> <<>>, hashes |-> <<>>,
          transport |-> <<>>, url |-> <<>>]

-----------------------------------------------------------------------------
(* The parsers of config.rs. Except in parse_paperflux what is coded stays  *)
(* as it is written: "%".                                                   *)

Written(raw) == [i \in DOMAIN raw |-> IF raw[i].coded THEN "%" ELSE raw[i].char]
FormDecode(raw) ==
  [i \in DOMAIN raw |-> IF raw[i] = Raw("+") THEN " " ELSE raw[i].char]

\* A key that is repeated: the last value.
LastOf(ps, key) ==
  LET at == {i \in DOMAIN ps : ps[i].key = key} IN IF at = {} THEN <<>> ELSE ps[Max(at)].raw

NonEmpty(parts) ==
  LET kept[n \in 0..Len(parts)] ==
        IF n = 0 THEN <<>>
        ELSE IF parts[n] = <<>> THEN kept[n - 1] ELSE Append(kept[n - 1], parts[n])
  IN kept[Len(parts)]
Trimmed(parts) == [i \in DOMAIN parts |-> Trim(parts[i])]

\* connect? and user:pass@host.
ParseNative(l) ==
  LET value(k) == Written(LastOf(l.params, k))
      hashes   == NonEmpty(Trimmed(Split(value("hashes"), "+")))
  IN CASE l.form = "userinfo" -> [Blank EXCEPT !.peer = value("host"),
                                               !.password = value("password")]
       [] l.form = "query" /\ \A k \in {"host", "peer", "password"} : value(k) # <<>> ->
            [Blank EXCEPT !.peer = value("host") \o value("peer"),
                          !.password = value("password"), !.hashes = Join(hashes, ",")]
       [] OTHER -> Refused

ParsePaperflux(l) ==
  LET value(k) == FormDecode(LastOf(l.params, k))
  IN IF l.form # "config" \/ value("transport") = <<>> THEN Refused
     ELSE [Blank EXCEPT !.protocol = "PaperFlux", !.peer = value("server"),
                        !.transport = value("transport"), !.url = value("url")]

\* "peer" stands for "host" as well.
ParseGeneric(l) ==
  LET value(k) == Written(LastOf(l.params, k))
      comma(c) == IF c = "+" THEN "," ELSE c
  IN IF value("peer") = <<>> THEN Refused
     ELSE [Blank EXCEPT !.protocol = l.scheme, !.peer = value("peer"),
                        !.password = value("password"),
                        !.hashes = [i \in DOMAIN value("hashes") |-> comma(value("hashes")[i])]]

\* csqtt-link, then the native parser. The token of the link gets no field.
ParseCsqtt(l) ==
  LET parsed == IF l.form = "sealed" THEN ParsePlaintext(l) ELSE Refused
  IN IF parsed = Refused THEN ParseNative(l)
     ELSE [Blank EXCEPT !.peer = parsed.host \o parsed.port, !.password = parsed.password,
                        !.hashes = Join(parsed.hashes, ",")]

Renamed(parsed, p) ==
  IF parsed # Refused /\ p \in {"CSQTT 2.1.9", "CSQTT 2.5.1", "CSQTTR"}
    THEN [parsed EXCEPT !.protocol = p] ELSE parsed

ParseLinkForProtocol(l, p) ==
  CASE l.scheme = "csqtt" -> Renamed(IF p = "CSQTT 2.1.9" THEN ParseNative(l) ELSE ParseCsqtt(l), p)
    [] l.scheme \in {"paperflux", "openflux"} -> ParsePaperflux(l)
    [] l.scheme \in {"OLCRTC", "ToTS"} -> ParseGeneric(l)
    [] OTHER -> Refused

-----------------------------------------------------------------------------
(* protocol.rs. Settings are normalized: pfTransport is never empty.        *)

Clean(text) ==
  LET commas == [i \in DOMAIN text |-> IF text[i] = " " THEN "," ELSE text[i]]
      parts  == NonEmpty(Split(commas, ","))
  IN SubSeq(parts, 1, Min({MaxHashes, Len(parts)}))

CsqttArgs(c, s) ==
  [core |-> "csqtt", peer |-> c.peer, password |-> c.password,
   mode |-> IF s.mode = "autoVk" THEN "auto_js" ELSE "manual",
   vk |-> IF s.mode = "autoVk" THEN <<>>
          ELSE Clean(IF Trim(c.hashes) = <<>> THEN s.vkHashes ELSE c.hashes),
   deviceId |-> c.protocol = "CSQTT 2.1.9"]

PaperfluxArgs(c, s) ==
  [core |-> "paperflux", transport |-> s.pfTransport,
   url |-> IF c.url # <<>> THEN c.url ELSE s.pfUrl]

\* ProtocolKind::from_id knows no OLCRTC and no ToTS: CSQTT.
BuildArgs(c, s) == IF c.protocol = "PaperFlux" THEN PaperfluxArgs(c, s) ELSE CsqttArgs(c, s)

-----------------------------------------------------------------------------

LinkInit ==
  link = NoLink /\ protocol = "CSQTT" /\ item = Refused /\ settings = NoArgs /\ args = NoArgs

Parse(l, p) ==
  /\ link' = l /\ protocol' = p
  /\ item' = ParseLinkForProtocol(l, p)
  /\ UNCHANGED <<settings, args>>

\* body_to_item without a link.
FillForm(p, hashes) ==
  /\ protocol' = p
  /\ item' = [Blank EXCEPT !.protocol = p, !.hashes = hashes]
  /\ UNCHANGED <<link, settings, args>>

Chosen == [mode : {"manual", "autoApi", "autoVk"}, vkHashes : Typed,
              pfTransport : {<<"other">>}, pfUrl : {<<>>, <<"other">>}]

\* With autoApi the hashes of the calls replace those of the settings, and a
\* copy of the config without its own is launched. The mutated form leaves
\* the config its hashes.
LaunchConfigFirst(s) ==
  /\ item # Refused /\ args = NoArgs
  /\ settings' = s
  /\ args' = BuildArgs(item, IF s.mode = "autoApi" THEN [s EXCEPT !.vkHashes = Join(CallHashes, ",")]
                             ELSE s)
  /\ UNCHANGED <<link, protocol, item>>

LaunchArgs(s) ==
  IF s.mode = "autoApi" /\ item.protocol \notin {"PaperFlux"}
    THEN BuildArgs([item EXCEPT !.hashes = <<>>], [s EXCEPT !.vkHashes = Join(CallHashes, ",")])
    ELSE BuildArgs(item, s)
Launch(s) ==
  /\ item # Refused /\ args = NoArgs
  /\ settings' = s
  /\ args' = LaunchArgs(s)
  /\ UNCHANGED <<link, protocol, item>>

\* The session is over; another link or form.
Forget ==
  /\ link # NoLink \/ item # Refused
  /\ link' = NoLink /\ protocol' = "CSQTT"
  /\ item' = Refused /\ settings' = NoArgs /\ args' = NoArgs

LinkNext ==
  \/ /\ link = NoLink /\ item = Refused
     /\ \E p \in Requested : (\E l \in Link : Parse(l, p)) \/ \E t \in Typed : FillForm(p, t)
  \/ \E s \in Chosen : Launch(s)
  \/ Forget

LinkSpec == LinkInit /\ [][LinkNext]_linkVars

-----------------------------------------------------------------------------

\* to_link and parse_plaintext: a sealed link that the crate accepts, and that
\* has nothing but ASCII in it and no URL of a call inside the URL of a call,
\* comes back from its own printed form with the same hashes, in number and
\* order, whatever is coded in them.
Ascii(text) == ToSet(text) \cap {"wide", "latin", "latin2"} = {}
RoundTrip ==
  link.scheme = "csqtt" /\ link.form = "sealed" =>
    LET parsed == ParsePlaintext(link) IN
    parsed # Refused /\ Ascii(parsed.host \o parsed.port \o parsed.password \o parsed.token)
      /\ (\A i \in DOMAIN parsed.hashes :
             Ascii(parsed.hashes[i]) /\ Head(parsed.hashes[i]) # "join") =>
        ParsePlaintext(ToLink(parsed)) = parsed

\* What a user means by a list: what stands between the separators.
Separators == {",", " "}
Meant(text, separators) ==
  LET commas == [i \in DOMAIN text |-> IF text[i] \in separators THEN "," ELSE text[i]]
  IN NonEmpty(Split(commas, ","))
LinkHashes ==
  IF link = NoLink THEN Meant(item.hashes, Separators)
  ELSE IF link.scheme = "csqtt" /\ link.form = "sealed" THEN ParsePlaintext(link).hashes
  ELSE Meant(Written(LastOf(link.params, "hashes")), {"+"})

\* api.rs, "Auto API hashes are session-scoped and must win over hashes stored
\* in the selected config", and protocol.rs on its fallback: a CSQTT core gets
\* the hashes of the calls, else those of the link or form, each of them whole
\* and in order, of a long list the first six; and those of the settings if the
\* config has none - but nothing if it has separators and no hash.
First(hashes) == SubSeq(hashes, 1, Min({MaxHashes, Len(hashes)}))
HashesReachCore ==
  args.core = "csqtt" =>
    /\ settings.mode = "autoVk" => args.vk = <<>>
    /\ settings.mode = "autoApi" => args.vk = CallHashes
    /\ settings.mode = "manual" =>
         /\ LinkHashes # <<>> /\ (\A i \in DOMAIN LinkHashes : ToSet(LinkHashes[i]) \cap Separators = {})
              => args.vk = First(LinkHashes)
         /\ LinkHashes = <<>> =>
              args.vk = IF Trim(item.hashes) = <<>> THEN First(Meant(settings.vkHashes, Separators))
                        ELSE <<>>
=============================================================================
