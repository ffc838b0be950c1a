------------------------------ MODULE Startup -------------------------------
(***************************************************************************)
(* What a launch of the desktop program settles before anything runs, and  *)
(* the files it leaves for the next: which instance it is and its colour   *)
(* (src/main/instanceIdentity.ts), its configuration                       *)
(* (src/main/configStore.ts), its certificate (src/main/certManager.ts);   *)
(* and the token that brings a relay's settings from another machine       *)
(* (relay/src/token.mjs).                                                  *)
(*                                                                         *)
(* A file is what its reader tells apart.  Hashes differ for different     *)
(* contents.                                                               *)
(***************************************************************************)
EXTENDS Naturals, Sequences, FiniteSets, FiniteSetsExt, SequencesExt

CONSTANTS Missing, Broken  \* no such file, or one that cannot be read

-----------------------------------------------------------------------------
(* Instances *)

(* resolveInstanceId: the argument, else the environment, if well formed.   *)
ResolveInstanceId(arg, env, wellFormed) ==
    IF arg \in wellFormed THEN arg ELSE IF env \in wellFormed THEN env ELSE "default"

\* The first colour, from the one of the id's hash on, that nobody has.
FreeColor(start, used, palette) ==
    LET free == {i \in 0 .. palette - 1 : (start + i) % palette \notin used}
    IN  IF free = {} THEN start ELSE (start + Min(free)) % palette

(* isolateUserData: the instance keeps its .color, or takes one.            *)
Isolate(colors, id, hash, palette) ==
    IF id = "default" \/ colors[id] # Missing THEN colors
    ELSE [colors EXCEPT ![id] =
             FreeColor(hash[id] % palette, {colors[i] : i \in DOMAIN colors \ {id}}, palette)]

(* instanceIdentity: no colour could be settled where files fail.           *)
InstanceColor(id, color, hash, palette) ==
    CASE id = "default" -> "blue"
      [] id # "default" /\ color # Missing -> color
      [] OTHER -> hash[id] % palette

-----------------------------------------------------------------------------
(* Configuration: the file is missing, broken, or has some of the fields.   *)

Fields == {"port", "relay"}
RelayFields == {"enabled", "master"}
Defaults == [port |-> 8443, relay |-> [enabled |-> FALSE, master |-> "none"]]

Readable(file) == file \notin {Missing, Broken}

(* load *)
Load(file) ==
    IF ~Readable(file) THEN Defaults
    ELSE [f \in Fields |->
             CASE f \notin DOMAIN file -> Defaults[f]
               [] f = "relay" /\ f \in DOMAIN file ->
                      [g \in RelayFields |-> IF g \in DOMAIN file.relay THEN file.relay[g] ELSE Defaults.relay[g]]
               [] OTHER -> file[f]]

(* save: the fields of the patch replace those of the cache.                *)
Saved(cache, patch) == [f \in Fields |-> IF f \in DOMAIN patch THEN patch[f] ELSE cache[f]]

(* The first configuration of an instance: the default one's, without relay.*)
Seed(own, base) ==
    IF own # Missing \/ ~Readable(base) THEN own
    ELSE IF "relay" \notin DOMAIN base THEN base
    ELSE [base EXCEPT !.relay = [g \in DOMAIN @ \cup {"enabled"} |-> IF g = "enabled" THEN FALSE ELSE @[g]]]

-----------------------------------------------------------------------------
(* Certificates: a PEM file may hold a certificate, a key, both, neither;   *)
(* expired says what a printed "Not After" in it says, which PEM itself has *)
(* not.                                                                     *)

Pem(cert, key) == [cert |-> cert, key |-> key, expired |-> FALSE]

CertFile(override) == IF override = "none" THEN "cert" ELSE "own"
KeyFile(override) ==
    CASE override = "none" -> "key" [] override = "x.pem" -> "own.key" [] OTHER -> "own"

Served(files, override) ==
    LET c == files[CertFile(override)]
        k == files[KeyFile(override)]
    IN  IF Missing \notin {c, k} /\ ~c.expired /\ c.cert # 0 /\ k.key # 0
        THEN {<<c.cert, k.key>>} ELSE {}

WriteCert(files, override, n) == [files EXCEPT ![CertFile(override)] = Pem(n, 0)]
WriteKey(files, override, n) == [files EXCEPT ![KeyFile(override)] = Pem(0, n)]

(* ensureCertificate: what is there and looks right, or the new pair n.     *)
EnsureCertificate(files, override, n) ==
    IF Served(files, override) # {}
    THEN [files |-> files, pairs |-> Served(files, override)]
    ELSE [files |-> WriteKey(WriteCert(files, override, n), override, n), pairs |-> {<<n, n>>}]

-----------------------------------------------------------------------------
(* Tokens: a prefix, the packed settings in some letters, a dot and eight   *)
(* letters that check them.  The address is http(s):// and a rest.          *)

TrimmedUrl(url) ==
    LET chars == {i \in DOMAIN url.rest : url.rest[i] # "/"}
    IN  IF chars = {} THEN [http |-> FALSE, rest |-> <<>>]
        ELSE [url EXCEPT !.rest = SubSeq(@, 1, Max(chars))]

Encodable(cfg) == cfg.url.http /\ cfg.master = "trelay"

TokenPrefix == <<"tconf_v1_">>
Dot == <<".">>
Space == <<" ">>
Letters(body) == [i \in 1 .. body.size |-> <<body, i>>]
Check(letters) == [i \in 1 .. 8 |-> <<"check", letters, i>>]

(* encodeAccessToken *)
EncodeAccessToken(cfg) ==
    LET letters == Letters([cfg EXCEPT !.url = TrimmedUrl(@)])
    IN  <<TokenPrefix>> \o letters \o <<Dot>> \o Check(letters)

(* decodeAccessToken: the settings, or none. *)
DecodeAccessToken(raw, longest) ==
    LET s == SelectSeq(raw, LAMBDA c : c # Space)
        rest == Tail(s)
        dots == {i \in DOMAIN rest : rest[i] = Dot}
        letters == SubSeq(rest, 1, Max(dots) - 1)
        body == letters[1][1]
    IN  IF /\ s # <<>> /\ Head(s) = TokenPrefix
           /\ dots # {} /\ Max(dots) > 1 /\ Max(dots) = Len(rest) - 8
           /\ SubSeq(rest, Max(dots) + 1, Len(rest)) = Check(letters)
           /\ Len(letters) <= longest
           /\ letters = Letters(body) /\ body.url.http /\ body.master = "trelay"
        THEN {body} ELSE {}

-----------------------------------------------------------------------------
Ids == {"one", "two", "three", "four"}

(* instanceIdentity.ts:96: instances that start one after another, in any   *)
(* order and again and again, have different colours while the palette lasts*)
(* and none changes its own.                                                *)
ASSUME ColorsDiffer ==
    \A hash \in [Ids -> 0 .. 2], order \in [1 .. 4 -> Ids] :
        order[1] = "one" =>
        LET after[n \in 0 .. 4] ==
                IF n = 0 THEN [i \in Ids |-> Missing] ELSE Isolate(after[n - 1], order[n], hash, 3)
        IN  \A n \in 1 .. 4 :
               /\ after[n - 1][order[n]] # Missing => after[n] = after[n - 1]
               /\ \A i, j \in {order[m] : m \in 1 .. n} :
                     i # j /\ after[n][i] = after[n][j] => Cardinality({order[m] : m \in 1 .. n}) > 3

RelayParts == UNION {[F -> BOOLEAN] : F \in SUBSET {"enabled"}}
Files == {Missing, Broken} \cup UNION {[F -> RelayParts] : F \in SUBSET {"relay"}}

(* instanceIdentity.ts:84: an instance that starts for the first time never *)
(* starts with the default one's relay enabled, whatever that has on disk,  *)
(* and its own settings are never seeded again.                             *)
ASSUME SeededWithoutRelay ==
    \A base \in Files :
        /\ ~Load(Seed(Missing, base)).relay.enabled
        /\ \A own \in Files \ {Missing} : Seed(own, base) = own

(* configStore.ts:70: what was saved is what the next launch loads, and no  *)
(* setting is lost but those of the relay that a patch leaves out.          *)
ASSUME SavedIsLoaded ==
    \A file \in Files : \A port \in {1, 2} :
        LET next == Saved(Load(file), [port |-> port])
        IN  /\ Load(next) = next
            /\ next.port = port /\ next.relay = Load(file).relay

Pems == {Missing} \cup [cert : {0, 1}, key : {0, 1}, expired : BOOLEAN]
PemFiles == [{"cert", "key", "own", "own.key"} -> Pems]

(* certManager.ts:25: the certificate, and the fingerprint people compare,  *)
(* is the same at the next launch, unless an own file's name lacks .pem.    *)
ASSUME CertificateStays ==
    \A files \in PemFiles : \A override \in {"none", "x.pem"} :
        LET first == EnsureCertificate(files, override, 2)
        IN  EnsureCertificate(first.files, override, 3) = first

(* certManager.ts:58: a launch cut off between the two files, from none, is *)
(* made good by the next: a certificate is served with its own key.         *)
ASSUME CutOffIsMadeGood ==
    LET none == [f \in {"cert", "key", "own", "own.key"} |-> Missing]
        cut(files, n) == IF Served(files, "none") = {} THEN WriteCert(files, "none", n) ELSE files
    IN  \A files \in {none, cut(none, 1), cut(cut(none, 1), 2)} :
            EnsureCertificate(files, "none", 3).pairs = {<<3, 3>>}

Urls == [http : {TRUE}, rest : BoundedSeq({"/", "a"}, 3)]
Settings == [url : Urls, master : {"trelay"}, size : 1 .. 3]

(* token.mjs:53: a token gives back its settings, spaces notwithstanding, if*)
(* the address is more than slashes; cut short, or with a letter of another,*)
(* it gives nothing.                                                        *)
ASSUME TokenIsWholeOrNothing ==
    \A cfg \in Settings :
        LET token == EncodeAccessToken(cfg)
            body == [cfg EXCEPT !.url = TrimmedUrl(@)]
            other == EncodeAccessToken([cfg EXCEPT !.size = 4])
        IN  /\ DecodeAccessToken(token, 9) = IF body.url.http THEN {body} ELSE {}
            /\ \A n \in 0 .. Len(token) :
                  /\ DecodeAccessToken(SubSeq(token, 1, n) \o <<Space>> \o SubSeq(token, n + 1, Len(token)), 9)
                         = DecodeAccessToken(token, 9)
                  /\ n < Len(token) => DecodeAccessToken(SubSeq(token, 1, n), 9) = {}
            /\ \A i \in 2 .. Len(token) :
                  token[i] # other[i] => DecodeAccessToken([token EXCEPT ![i] = other[i]], 9) = {}
=============================================================================
