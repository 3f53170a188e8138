----------------------------- MODULE CsqttLink -----------------------------
(***************************************************************************)
(* The crate csqtt-link: the plaintext of a csqtt:// link taken apart      *)
(* (parse_plaintext) and put together again (to_link).                     *)
(*                                                                         *)
(* A text is a sequence of units: a word of sixteen letters or more, a     *)
(* short one, or one character with a meaning of its own. In a link each   *)
(* unit is written out or percent-coded. AES-GCM and base64 either yield   *)
(* the plaintext or refuse the link.                                       *)
(***************************************************************************)
EXTENDS Naturals, FiniteSetsExt, SequencesExt

Word == {"word", "other"}                  \* sixteen letters or more
Char == Word \cup
  {"short", "+", ",", " ", "?",            \* "?" stands for "#" as well
   "join",                                 \* https://vk.com/call/join/ and its likes
   "wide", "latin", "latin2"}              \* not ASCII: see Latin
Unreserved == Word \cup {"short"}

Unit == [char : Char, coded : BOOLEAN]
Raw(c) == [char |-> c, coded |-> FALSE]
Coded(c) == [char |-> c, coded |-> TRUE]

\* decode_query_component takes each byte of a character for a character of its own.
Latin(c) == CASE c = "wide" -> "latin" [] c = "latin" -> "latin2" [] OTHER -> c
Decode(raw) == [i \in DOMAIN raw |-> Latin(raw[i].char)]
UrlEncode(text) == [i \in DOMAIN text |-> [char |-> text[i], coded |-> text[i] \notin Unreserved]]

Longer(parts, u) == [parts EXCEPT ![Len(parts)] = Append(@, u)]
Split(text, separator) ==
  LET parts[n \in 0..Len(text)] ==
        IF n = 0 THEN << <<>> >>
        ELSE IF text[n] = separator THEN Append(parts[n - 1], <<>>)
        ELSE Longer(parts[n - 1], text[n])
  IN parts[Len(text)]
Join(parts, separator) ==
  LET text[n \in 0..Len(parts)] ==
        IF n = 0 THEN <<>>
        ELSE IF n = 1 THEN parts[1]
        ELSE Append(text[n - 1], separator) \o parts[n]
  IN text[Len(parts)]
Trim(text) ==
  LET kept == {i \in DOMAIN text : text[i] # " "}
  IN IF kept = {} THEN <<>> ELSE SubSeq(text, Min(kept), Max(kept))

-----------------------------------------------------------------------------
(* The parameters of a query: what stands between "&", or the known keys    *)
(* where they are found in a query without "&".                             *)

Known == {"v", "host", "peer", "password", "client", "hashes", "token", "workers"}
Key == Known \cup {"server", "transport", "url", "name"}  \* the last for any other key
Parameter == [key : Key, raw : Seq(Unit)]
Param(key, raw) == [key |-> key, raw |-> raw]

\* A query without "&" is cut at every known key that follows a letter or a
\* digit; what a code ends with is one, and Url::parse codes what is not ASCII.
LettersLast(raw) == raw # <<>> /\ (Last(raw).coded \/ Last(raw).char \notin {"+", ",", "?", "join"})
Found(params, i) == params[i].key \in Known /\ (i > 1 => LettersLast(params[i - 1].raw))

\* Any other key belongs to the value before it.
Prolonged(ps, p) ==
  IF ps = <<>> THEN ps ELSE [ps EXCEPT ![Len(ps)].raw = @ \o <<Raw("short")>> \o p.raw]
Params(q) ==
  LET given == q.params
      found[n \in 0..Len(given)] ==
        IF n = 0 THEN <<>>
        ELSE IF Found(given, n) THEN Append(found[n - 1], given[n])
        ELSE Prolonged(found[n - 1], given[n])
  IN IF q.separated THEN given ELSE found[Len(given)]
Keys(ps) == {ps[i].key : i \in DOMAIN ps}
ParamOf(ps, key) == (CHOOSE p \in ToSet(ps) : p.key = key).raw
Repeated(ps) == Cardinality(Keys(ps)) < Len(ps)

MaxHashes == 6

StripVkUrl(text) ==
  LET t     == Trim(text)
      rest  == IF t # <<>> /\ Head(t) = "join" THEN Tail(t) ELSE t
      marks == {i \in DOMAIN rest : rest[i] = "?"}
  IN IF marks = {} THEN rest ELSE SubSeq(rest, 1, Min(marks) - 1)

Hash(text) == \* h.len() >= 16 and no whitespace
  /\ \E i \in DOMAIN text : text[i] \in Word \cup {"join"}
  /\ " " \notin ToSet(text)

ParseHashes(raw) ==
  LET parts == Split(raw, Raw("+")) IN [i \in DOMAIN parts |-> StripVkUrl(Decode(parts[i]))]

HashesOk(raw) ==
  LET hashes == ParseHashes(raw) IN
  /\ Len(Split(raw, Raw("+"))) <= MaxHashes
  /\ \A i \in DOMAIN hashes : Hash(hashes[i])
  /\ IsInjective(hashes)

Secret(text) == " " \notin ToSet(text)  \* trimmed before
Refused == [refused |-> TRUE]

\* The prefixes it may have ("connect?", "csqtt://", none) lead to one query;
\* host and port are "usable" or not: loopback, "", 0, no number.
ParsePlaintext(q) ==
  LET ps       == Params(q)
      has(k)   == k \in Keys(ps)
      password == IF has("password") THEN Trim(Decode(ParamOf(ps, "password"))) ELSE <<>>
      hashes   == IF has("hashes") THEN ParseHashes(ParamOf(ps, "hashes")) ELSE <<>>
      token    == IF has("token") THEN Trim(Decode(ParamOf(ps, "token"))) ELSE <<>>
  IN IF /\ ~Repeated(ps)
        /\ {"v", "host", "peer"} \subseteq Keys(ps)
        /\ q.version2 /\ q.usable
        /\ Secret(password)
        /\ has("hashes") => HashesOk(ParamOf(ps, "hashes"))
        /\ has("token") => token # <<>> /\ Secret(token)
        /\ ~(has("hashes") /\ has("token"))
     THEN [host |-> Decode(ParamOf(ps, "host")), port |-> Decode(ParamOf(ps, "peer")),
           password |-> password, hashes |-> hashes, token |-> token]
     ELSE Refused

\* The mutated form codes the list as one text.
ToLinkJoined(link) ==
  [separated |-> TRUE, version2 |-> TRUE, usable |-> TRUE,
   params |-> <<Param("v", <<Raw("short")>>), Param("host", UrlEncode(link.host)),
                Param("peer", UrlEncode(link.port))>>
     \o (IF link.password = <<>> THEN <<>> ELSE <<Param("password", UrlEncode(link.password))>>)
     \o (IF link.hashes = <<>> THEN <<>> ELSE <<Param("hashes", UrlEncode(Join(link.hashes, "+")))>>)
     \o (IF link.token = <<>> THEN <<>> ELSE <<Param("token", UrlEncode(link.token))>>)]

ToLink(link) ==
  LET coded == [i \in DOMAIN link.hashes |-> UrlEncode(link.hashes[i])] IN
  [separated |-> TRUE, version2 |-> TRUE, usable |-> TRUE,
   params |-> <<Param("v", <<Raw("short")>>), Param("host", UrlEncode(link.host)),
                Param("peer", UrlEncode(link.port))>>
     \o (IF link.password = <<>> THEN <<>> ELSE <<Param("password", UrlEncode(link.password))>>)
     \o (IF coded = <<>> THEN <<>> ELSE <<Param("hashes", Join(coded, Raw("+")))>>)
     \o (IF link.token = <<>> THEN <<>> ELSE <<Param("token", UrlEncode(link.token))>>)]
=============================================================================
