--------------------------- MODULE MonitoringRows ---------------------------
(***************************************************************************)
(* How the monitoring page turns the usage payload into event rows         *)
(* (utils/usage.ts, utils/sourceResolver.ts and the pure half of           *)
(* hooks/useMonitoringData.ts).  Pure operators only.                      *)
(*                                                                         *)
(* Names, keys and indices are strings, "" for an absent one; a number     *)
(* that may be absent is <<>> or <<n>>; a usage source is <<>> or a pair   *)
(* <<tag, text>>, "k" for a key's fingerprint, "m" for a masked key, "t"   *)
(* for a text, "t*" for the text of a key masked here.  Display masks,     *)
(* lower-casing, the numbers in default names and search texts are left    *)
(* out.                                                                    *)
(***************************************************************************)
EXTENDS Integers, Sequences, FiniteSets, SequencesExt

CONSTANTS FileNames,    \* the texts that look like an auth file's name
          SecretOf,     \* the raw API key a text holds, for the texts that hold one
          MaskedTexts   \* the texts that look like a masked key

Or(a, b) == IF a # "" THEN a ELSE b
Larger(a, b) == IF a >= b THEN a ELSE b
NonNegative(n) == Larger(n, 0)

(* ------------------------------- tokens -------------------------------- *)

\* readTokens: a missing cache count is what was read plus what was created.
ReadTokens(raw) ==
    [input |-> raw.input, output |-> raw.output, reasoning |-> raw.reasoning, cached |-> raw.cached,
     cache |-> IF raw.cache # 0 THEN raw.cache ELSE raw.read + raw.created, total |-> raw.total]

CachedTokens(t) == Larger(NonNegative(t.cached), NonNegative(t.cache))

\* extractTotalTokens: the total the server sent, else the sum of the parts.
ExtractTotalTokens(t) ==
    IF t.total > 0 THEN t.total ELSE t.input + t.output + t.reasoning + Larger(t.cached, t.cache)

\* calculateCost, in millionths of a dollar: cached tokens are taken off the prompt.
CalculateCost(d, prices) ==
    IF d.model \notin DOMAIN prices THEN 0
    ELSE LET p == prices[d.model]
             t == d.tokens
             cached == CachedTokens(t)
         IN  NonNegative(  NonNegative(NonNegative(t.input) - cached) * p.prompt
                         + cached * p.cache + NonNegative(t.output) * p.completion)

\* normalizeModelPrices: negative prices are dropped, a missing cache price is the prompt's.
NormalizeModelPrices(raw) ==
    LET kept == {m \in DOMAIN raw : m # "" /\ raw[m].prompt >= 0 /\ raw[m].completion >= 0}
        cache(p) == IF p.cache # <<>> /\ p.cache[1] >= 0 THEN p.cache[1] ELSE p.prompt
    IN  [m \in kept |-> [prompt |-> raw[m].prompt, completion |-> raw[m].completion, cache |-> cache(raw[m])]]

(* ------------------------------- sources ------------------------------- *)

\* normalizeUsageSourceId: a secret becomes its fingerprint.
NormalizeUsageSourceId(text) ==
    IF text = "" THEN <<>>
    ELSE IF text \in DOMAIN SecretOf THEN <<"k", SecretOf[text]>>
    ELSE <<IF text \in MaskedTexts THEN "m" ELSE "t", text>>

Masked(key) == <<"t*", key>>

BuildCandidateUsageSourceIds(apiKey, prefix) ==
    (IF prefix = "" THEN {} ELSE {<<"t", prefix>>})
        \cup (IF apiKey = "" THEN {} ELSE {NormalizeUsageSourceId(apiKey), Masked(apiKey)})

\* buildSourceInfoMap: every provider's identity with the keys it is registered under.
ProviderTypes == <<"gemini", "claude", "codex", "antigravity", "vertex">>

NativeEntries(config) ==
    LET of(type) == [i \in 1..Len(config[type]) |->
            LET item == config[type][i]
            IN  [info |-> [name |-> Or(item.prefix, type), type |-> type, identity |-> <<type, i>>],
                 indices |-> {item.index} \ {""},
                 sources |-> BuildCandidateUsageSourceIds(item.key, item.prefix)]]
    IN  FlattenSeq([k \in 1..Len(ProviderTypes) |-> of(ProviderTypes[k])])

OpenAIEntries(config) ==
    [i \in 1..Len(config.openai) |->
        LET p == config.openai[i]
        IN  [info |-> [name |-> Or(p.prefix, Or(p.name, "openai")), type |-> "openai", identity |-> <<"openai", i>>],
             indices |-> ({p.index} \cup {p.keys[k].index : k \in DOMAIN p.keys}) \ {""},
             sources |-> BuildCandidateUsageSourceIds("", p.prefix)
                          \cup UNION {BuildCandidateUsageSourceIds(p.keys[k].key, "") : k \in DOMAIN p.keys}]]

SourceEntries(config) == NativeEntries(config) \o OpenAIEntries(config)

\* registerIdentity, looked up: a key that two identities claim stands for none.
Registered(claims) == IF \E a, b \in claims : a.identity # b.identity THEN {} ELSE claims

ByAuthIndex(entries, index) == Registered({e.info : e \in {e \in Range(entries) : index \in e.indices}})
BySource(entries, source) == Registered({e.info : e \in {e \in Range(entries) : source \in e.sources}})

KnownIndex(entries, index) == \E k \in DOMAIN entries : index \in entries[k].indices

\* resolveSourceDisplay: by auth index, by auth file, by source, then the raw texts.
ResolveSourceDisplay(source, index, entries, authFiles) ==
    LET configured == IF index = "" THEN {} ELSE ByAuthIndex(entries, index)
        named == IF source = <<>> THEN {} ELSE BySource(entries, source)
        other(type, name, identity) == [name |-> name, type |-> type, identity |-> identity]
    IN  IF configured # {} THEN CHOOSE info \in configured : TRUE
        ELSE IF index \in DOMAIN authFiles
             THEN other(authFiles[index].type, Or(authFiles[index].name, index), <<"auth", index>>)
        ELSE IF named # {} THEN CHOOSE info \in named : TRUE
        ELSE IF source # <<>> THEN other("", source[2], <<"source", source>>)
        ELSE IF index # "" THEN other("", index, <<"auth", index>>)
        ELSE other("", "-", <<"source", <<>>>>)

(* --------------------------- auth files' names -------------------------- *)

\* A name that tells nothing: a file name, the provider or the index itself.
Weak(text, index, provider) == text = "" \/ text \in FileNames \/ text = provider \/ text = index

\* resolveAuthDisplayName; names is <<email, account, username, label, subject>>.
ResolveAuthDisplayName(f) ==
    LET strong(text) == ~Weak(text, f.index, f.provider)
        label == f.names[4]
    IN  IF \E k \in DOMAIN f.names : strong(f.names[k]) THEN SelectSeq(f.names, strong)[1]
        ELSE IF f.name \notin {"", f.index} THEN f.name
        ELSE IF label \notin {"", f.index} THEN label
        ELSE Or(f.provider, f.index)

\* normalizeAuthMeta: the account is the address, the account's name, the file or the label.
AuthMeta(f) ==
    LET label == ResolveAuthDisplayName(f)
        other(text) == IF text = f.index THEN "" ELSE text
        account == Or(f.names[1], Or(f.names[2], Or(other(f.name), other(label))))
    IN  [label |-> label, account |-> Or(account, Or(f.provider, "-")), provider |-> Or(f.provider, "-"),
         status |-> Or(f.status, "unknown"), disabled |-> f.disabled, unavailable |-> f.unavailable,
         runtimeOnly |-> f.runtimeOnly]

\* Of several files under one index the last counts.
LastUnder(files, index) ==
    files[Max({k \in DOMAIN files : files[k].index = index})]
Indices(files) == {files[k].index : k \in DOMAIN files} \ {""}

AuthMetaMap(files) == [i \in Indices(files) |-> AuthMeta(LastUnder(files, i))]
AuthFileMap(files) ==
    [i \in Indices(files) |-> [name |-> ResolveAuthDisplayName(LastUnder(files, i)), type |-> LastUnder(files, i).provider]]

(* ------------------------------- channels ------------------------------ *)

\* normalizeOpenAIChannel: a provider without a base URL is no channel.
OpenAIChannels(list) ==
    LET channel(i) == [key |-> <<"openai", i>>, name |-> Or(list[i].name, "openai"), authType |-> "",
                       disabled |-> list[i].disabled,
                       indices |-> ({list[i].index} \cup {list[i].keys[k].index : k \in DOMAIN list[i].keys}) \ {""},
                       models |-> list[i].models \ {""}]
        Based(i) == list[i].baseUrl # ""
        ids == SelectSeq([i \in 1..Len(list) |-> i], Based)
    IN  [k \in 1..Len(ids) |-> channel(ids[k])]

ChannelTypes == <<"gemini", "claude", "codex", "vertex">>

\* buildNativeProviderChannels: one channel per provider and kind of credential, if it has indices.
BuildNativeProviderChannels(config, files) ==
    LET apiKey(type) == [key |-> <<"provider", "apikey", type>>, name |-> type \o " (API Key)", authType |-> "apikey", disabled |-> FALSE,
                         indices |-> {config[type][k].index : k \in DOMAIN config[type]} \ {""},
                         models |-> UNION {config[type][k].models : k \in DOMAIN config[type]} \ {""}]
        oauth(p) == [key |-> <<"provider", "oauth", p>>, name |-> p, authType |-> "oauth", disabled |-> FALSE,
                     indices |-> {files[k].index : k \in {k \in DOMAIN files : files[k].provider = p}} \ {""},
                     models |-> {}]
        First(k) == files[k].provider # "" /\ \A j \in 1..k - 1 : files[j].provider # files[k].provider
        firsts == SelectSeq([k \in DOMAIN files |-> k], First)
        all == [k \in 1..Len(ChannelTypes) |-> apiKey(ChannelTypes[k])]
                 \o [k \in 1..Len(firsts) |-> oauth(files[firsts[k]].provider)]
    IN  SelectSeq(all, LAMBDA c : c.indices # {})

\* loadMonitoringMetaPayload: either request may fail; the channels then come from the
\* configuration, the auth files are none, and a native channel that shares an index is dropped.
MetaPayload(config, authResult, channelResult) ==
    LET files == IF authResult = <<>> THEN <<>> ELSE authResult[1]
        openai == OpenAIChannels(IF channelResult = <<>> THEN config.openai ELSE channelResult[1])
        taken == UNION {openai[k].indices : k \in DOMAIN openai}
    IN  [files |-> files,
         channels |-> openai \o SelectSeq(BuildNativeProviderChannels(config, files), LAMBDA c : c.indices \cap taken = {}),
         error |-> authResult = <<>> \/ channelResult = <<>>]

\* channelByAuthIndex: the last channel of an index; a provider's channel under its own key too.
\* The answer is <<>> or <<channel>>.
LastChannel(channels, ks) == IF ks = {} THEN <<>> ELSE <<channels[Max(ks)]>>
ChannelOfIndex(channels, index) ==
    LastChannel(channels, {k \in DOMAIN channels : index \in channels[k].indices})
ChannelOfProvider(channels, kind, provider) ==
    LastChannel(channels, {k \in DOMAIN channels : channels[k].key = <<"provider", kind, provider>>})
FirstFound(a, b) == IF a # <<>> THEN a ELSE b

(* ------------------------------ event rows ----------------------------- *)

\* sort(right.time - left.time), which is stable.
NewestFirst(rows) ==
    LET ks == SortSeq([k \in DOMAIN rows |-> k],
                      LAMBDA a, b : rows[a].time > rows[b].time \/ (rows[a].time = rows[b].time /\ a < b))
    IN  FoldLeft(LAMBDA sorted, k : Append(sorted, rows[k]), <<>>, ks)

\* collectUsageDetailsWithEndpoint: every detail of every model of every endpoint, newest first.
CollectUsageDetails(apis) ==
    LET detail(a, m, d) == [endpoint |-> apis[a].endpoint, model |-> apis[a].models[m].model, time |-> d.time,
                            source |-> NormalizeUsageSourceId(d.source), index |-> d.index, keyHash |-> d.keyHash,
                            provider |-> d.provider, authType |-> d.authType, latency |-> d.latency,
                            tokens |-> ReadTokens(d.tokens), failed |-> d.failed]
        ofModel(a, m) == [k \in DOMAIN apis[a].models[m].details |-> detail(a, m, apis[a].models[m].details[k])]
        ofApi(a) == FlattenSeq([m \in DOMAIN apis[a].models |-> ofModel(a, m)])
    IN  NewestFirst(FlattenSeq([a \in DOMAIN apis |-> ofApi(a)]))

\* The client's key: the configured one with this hash, the hash, or the only key there is.
ClientApiKey(hash, apiKeys) ==
    IF hash # "" THEN <<"key", hash>>
    ELSE IF Len(apiKeys) = 1 THEN <<"key", apiKeys[1]>> ELSE <<"unknown">>

\* The channel of a detail: of its index, else of its provider, the kind of credential first.
ChannelOf(channels, index, kind, provider) ==
    FirstFound(ChannelOfIndex(channels, index),
        IF provider = "-" THEN <<>>
        ELSE FirstFound(ChannelOfProvider(channels, IF kind = "apikey" THEN "apikey" ELSE "oauth", provider),
             FirstFound(ChannelOfProvider(channels, "oauth", provider),
                        ChannelOfProvider(channels, "apikey", provider))))

\* buildEventRows, one detail: ctx holds the auth files, the channels, the configured
\* sources and keys and the prices.
EventRow(d, ctx) ==
    LET metas == AuthMetaMap(ctx.files)
        meta == IF d.index \in DOMAIN metas THEN <<metas[d.index]>> ELSE <<>>
        source == ResolveSourceDisplay(d.source, d.index, ctx.sources, AuthFileMap(ctx.files))
        provider == Or(d.provider, IF meta # <<>> THEN meta[1].provider ELSE Or(source.type, "-"))
        kind == IF d.authType # "" \/ meta = <<>> \/ meta[1].runtimeOnly THEN d.authType ELSE "oauth"
        channel == ChannelOf(ctx.channels, d.index, kind, provider)
        known == \/ d.index \in DOMAIN metas
                 \/ ChannelOfIndex(ctx.channels, d.index) # <<>>
                 \/ KnownIndex(ctx.sources, d.index)
        apiKey == \/ kind = "apikey"
                  \/ channel # <<>> /\ channel[1].authType = "apikey"
                  \/ source.identity[1] \notin {"auth", "source"} /\ meta = <<>>
        deleted == d.index # "" /\ ~known /\ ~apiKey
        label == IF deleted THEN "deleted" ELSE IF meta # <<>> THEN meta[1].label ELSE Or(source.name, Or(d.index, "-"))
        t == d.tokens
    IN  [time |-> d.time, model |-> Or(d.model, "-"), endpoint |-> Or(d.endpoint, "-"), source |-> source.identity,
         account |-> IF meta = <<>> THEN label ELSE Or(meta[1].account, label),
         authIndex |-> Or(d.index, "-"), key |-> ClientApiKey(d.keyHash, ctx.apiKeys), label |-> label,
         provider |-> provider, channel |-> IF channel # <<>> THEN channel[1].name ELSE provider,
         deleted |-> deleted, failed |-> d.failed,
         counted |-> d.failed \/ NonNegative(t.input) > 0 \/ NonNegative(t.output) > 0,
         latency |-> d.latency, input |-> NonNegative(t.input), output |-> NonNegative(t.output),
         reasoning |-> NonNegative(t.reasoning), cached |-> CachedTokens(t),
         total |-> Larger(NonNegative(t.total), ExtractTotalTokens(t)), cost |-> CalculateCost(d, ctx.prices),
         task |-> <<d.time, source.identity, Or(d.index, "-")>>]

\* Details without a time are dropped.
BuildEventRows(details, ctx) ==
    LET dated == SelectSeq(details, LAMBDA d : d.time > 0)
    IN  NewestFirst([k \in DOMAIN dated |-> EventRow(dated[k], ctx)])

Context(config, payload, prices) ==
    [files |-> payload.files, channels |-> payload.channels, sources |-> SourceEntries(config),
     apiKeys |-> config.apiKeys, prices |-> prices]

\* The figures of the status chips.
Metadata(payload) ==
    LET metas == AuthMetaMap(payload.files)
        Count(P(_)) == Cardinality({i \in DOMAIN metas : P(metas[i])})
        live(m) == ~m.disabled /\ ~m.unavailable /\ m.status = "active"
    IN  [files |-> Len(payload.files), active |-> Count(live), unavailable |-> Count(LAMBDA m : m.unavailable),
         runtimeOnly |-> Count(LAMBDA m : m.runtimeOnly), channels |-> Len(payload.channels),
         enabled |-> Len(SelectSeq(payload.channels, LAMBDA c : ~c.disabled)),
         models |-> Cardinality(UNION {payload.channels[k].models : k \in DOMAIN payload.channels})]

\* buildStatusChips: the tone of each chip.
StatusTones(m) ==
    [credentials |-> IF m.files = 0 \/ m.unavailable > 0 THEN "warn" ELSE "good",
     channels |-> IF m.enabled = 0 THEN "bad" ELSE IF m.enabled < m.channels THEN "warn" ELSE "good",
     runtimeOnly |-> IF m.runtimeOnly > 0 THEN "warn" ELSE "good",
     models |-> IF m.models > 0 THEN "good" ELSE "warn"]
=============================================================================
