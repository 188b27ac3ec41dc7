-------------------------------- MODULE Output --------------------------------
(***************************************************************************)
(* From what the rules match on a page to the file of items: the claims    *)
(* and the item that is a view of them (internal/parser/composite.go,      *)
(* derive.go), and the file storages with their order                      *)
(* (internal/storage/file.go, order.go).                                   *)
(*                                                                         *)
(* Names and texts are numbers, in the order of their strings; none holds  *)
(* the NUL that ends each part of an item's key. A value is a record: its  *)
(* kind (text, list, object, or one that JSON cannot encode) and its       *)
(* parts. An item's fields are a function from names to values.            *)
(***************************************************************************)
EXTENDS Naturals, SequencesExt

CONSTANTS
    Match,        \* the texts each rule matches: selectors, patterns, HTML
    Structured,   \* what a page declares of itself, block by block
    Name, Value,  \* the names and the values fields may have
    Json,         \* json.Marshal, or %v, of those that are not texts
    Joined,       \* the text "name=text", for a name and a text
    StorageType,  \* the storages tried: json, jsonl, ordered (jsonl), csv
    Url_, Spider_, Timestamp_,  \* the names "_url", "_spider" and "_timestamp"
    Unset

VARIABLES
    storageType,
    taken,        \* the items Store was given
    buffered,     \* those held back
    headers,      \* of a CSV file, once an item has set them
    rows,         \* the file
    status        \* of the storage: none, open, closed, or gone with its process

output == <<storageType, taken, buffered, headers, rows, status>>

\* The elements of S, each after those below it.
ByRank(S, below) ==
    [n \in 1..Cardinality(S) |-> CHOOSE k \in S : Cardinality(below[k]) = n - 1]

-----------------------------------------------------------------------------
(* Claims. *)

Method(rule) == <<IF rule.type \in {"regex", "xpath"} THEN rule.type ELSE "css", rule.selector>>

\* valueAssertions: one claim for each match.
ValueAssertions(rule) ==
    [k \in DOMAIN Match[rule] |->
        [field |-> rule.name, method |-> Method(rule), index |-> k - 1,
         value |-> [kind |-> "text", parts |-> <<Match[rule][k]>>]]]

\* StructuredDataToAssertions: by field, the last block wins.
StructuredAssertions(page) ==
    LET blocks == Structured[page]
        last == {k \in DOMAIN blocks : \A j \in DOMAIN blocks : blocks[j].field = blocks[k].field => j <= k}
        claim(k) == [field |-> blocks[k].field, method |-> <<"structured", blocks[k].field>>, index |-> 0,
                     value |-> [kind |-> "object", parts |-> blocks[k].data]]
        order == ByRank(last, [k \in last |-> {j \in last : blocks[j].field < blocks[k].field}])
    IN [n \in DOMAIN order |-> claim(order[n])]

\* dropShadowed: of a field named by several methods the last one's claims.
DropShadowed(claims) ==
    LET shadowed(c) == \E n \in DOMAIN claims :
                           /\ claims[n].field = c.field /\ claims[n].method # c.method
                           /\ \A m \in (n + 1)..Len(claims) : claims[m].field # c.field
    IN FlattenSeq([n \in DOMAIN claims |-> IF shadowed(claims[n]) THEN <<>> ELSE <<claims[n]>>])

\* CompositeParser.Derive: selectors, patterns, paths, the page's own data.
Derive(page, rules) ==
    LET of(type) == FlattenSeq([n \in DOMAIN rules |->
                        IF Method(rules[n])[1] = type THEN ValueAssertions(rules[n]) ELSE <<>>])
    IN DropShadowed(of("css") \o of("regex") \o of("xpath") \o StructuredAssertions(page))

\* ItemFromAssertions. The values of a field are sorted by index, stably; a
\* mixed list stays a list.
Group(claims, f) ==
    LET of == {k \in DOMAIN claims : claims[k].field = f}
        below(k) == {j \in of : \/ claims[j].index < claims[k].index
                                \/ claims[j].index = claims[k].index /\ j < k}
        order == ByRank(of, [k \in of |-> below(k)])
    IN [n \in DOMAIN order |-> claims[order[n]].value]

FieldValue(values) ==
    IF Len(values) = 1 THEN values[1]
    ELSE [kind |-> "list", parts |-> FlattenSeq([n \in DOMAIN values |-> values[n].parts])]

ItemFromAssertions(claims) ==
    [f \in {claims[k].field : k \in DOMAIN claims} |-> FieldValue(Group(claims, f))]

\* What a parser makes of a page, dated by its response (stampFromResponse).
ParserItem(page, rules, time, url) ==
    LET claims == Derive(page, rules)
    IN [fields |-> ItemFromAssertions(claims), claims |-> claims, time |-> time, url |-> url, spider |-> 0]

\* What a callback makes, with no claims.
CallbackItem(fields, time, url, spider) ==
    [fields |-> fields, claims |-> <<>>, time |-> time, url |-> url, spider |-> spider]

-----------------------------------------------------------------------------
(* The order of items. *)

\* Keys: the names of the fields, sorted.
Keys(fields) == ByRank(DOMAIN fields, [k \in DOMAIN fields |-> {j \in DOMAIN fields : j < k}])

CanonicalValue(v) == IF v.kind = "text" THEN v.parts[1] ELSE Json[v]

\* Mutant: two items of one response compare equal.
OrderKeyOfResponse(i) == <<i.time, i.url, i.spider>>

\* orderKey: time, URL, spider, and a name=text for each field.
OrderKey(i) ==
    LET names == Keys(i.fields)
    IN <<i.time, i.url, i.spider>> \o
       [k \in 1..Len(names) |-> Joined[names[k]][CanonicalValue(i.fields[names[k]])]]

ASSUME OutputAssumption ==
    /\ Url_ \in Nat /\ Spider_ \in Nat /\ Timestamp_ \in Nat
    /\ Name \subseteq Nat
    /\ \A r \in DOMAIN Match : r.name \in Name /\ Match[r] \in Seq(Nat)
    /\ \A p \in DOMAIN Structured : Structured[p] \in Seq([field : Name, data : Seq(Nat)])
    /\ \A v \in Value : CanonicalValue(v) \in Nat
    /\ \A f \in Name, v \in Value : Joined[f][CanonicalValue(v)] \in Nat

\* What is left to the rules: those that claim a field by one method match the
\* same texts. An attribute is not part of an XPath rule's method.
MethodsTellRules ==
    \A r, q \in DOMAIN Match : r.name = q.name /\ Method(r) = Method(q) => Match[r] = Match[q]

\* What is left to the rules and the pages: two fields do not come to the same
\* name=text, as a="b=c" and a=b="c" do, or a text that is what a list or an
\* object is in JSON; and none holds the NUL that ends each part of a key.
KeysTellFields ==
    \A f, g \in Name, v, w \in Value :
        Joined[f][CanonicalValue(v)] = Joined[g][CanonicalValue(w)] => f = g /\ v = w

NotAfter(a, b) ==
    \/ IsPrefix(a, b)
    \/ \E n \in 1..Len(a) : n <= Len(b) /\ a[n] < b[n] /\ \A m \in 1..(n - 1) : a[m] = b[m]

\* SortItems: any of the sorted arrangements, sort.Slice is not stable.
Arrangements(s) == {[k \in DOMAIN s |-> s[p[k]]] : p \in SetToSeqs(DOMAIN s)}
SortItems(items) ==
    {s \in Arrangements(items) :
        \A j, k \in DOMAIN s : j < k => NotAfter(OrderKey(s[j]), OrderKey(s[k]))}

-----------------------------------------------------------------------------
(* The storages. *)

InitOutput ==
    /\ storageType = Unset
    /\ taken = <<>> /\ buffered = <<>> /\ headers = Unset /\ rows = <<>> /\ status = "none"

\* NewFileStorageOrdered.
OpenStorage ==
    /\ status = "none"
    /\ storageType' \in StorageType /\ status' = "open"
    /\ UNCHANGED <<taken, buffered, headers, rows>>

Encodable(i) == \A f \in DOMAIN i.fields : i.fields[f].kind # "channel"

\* What is written of a run of items, ended by the first that cannot be.
Encoded(items) ==
    LET bad == {k \in DOMAIN items : ~Encodable(items[k])}
    IN IF bad = {} THEN items
       ELSE SubSeq(items, 1, (CHOOSE k \in bad : \A j \in bad : k <= j) - 1)

\* jsonlEntry: the fields go over the columns of the same name.
Text(n) == [kind |-> "text", parts |-> <<n>>]
Column(i, f) == Text(IF f = Url_ THEN i.url ELSE IF f = Spider_ THEN i.spider ELSE i.time)
Entry(i) ==
    [f \in DOMAIN i.fields \cup {Url_, Timestamp_} \cup (IF i.spider = 0 THEN {} ELSE {Spider_}) |->
        IF f \in DOMAIN i.fields THEN i.fields[f] ELSE Column(i, f)]
Entries(items) == [k \in DOMAIN items |-> Entry(items[k])]

\* Item.ToFlatMap: what JSON cannot encode is empty.
ToFlatMap(i) ==
    [f \in DOMAIN i.fields \cup {Url_, Spider_, Timestamp_} |->
        IF f \notin DOMAIN i.fields THEN Column(i, f)
        ELSE IF i.fields[f].kind = "channel" THEN Text(0) ELSE i.fields[f]]

\* A row under the headers the first item set: what they do not name is left out.
CsvRow(hs, i) == [h \in hs |-> IF h \in DOMAIN ToFlatMap(i) THEN ToFlatMap(i)[h] ELSE Text(0)]

StoreBuffered(items) ==
    /\ storageType \in {"json", "ordered"}
    /\ buffered' = buffered \o items
    /\ UNCHANGED <<headers, rows>>

StoreJSONL(items) ==
    /\ storageType = "jsonl"
    /\ rows' = rows \o Entries(Encoded(items))
    /\ UNCHANGED <<headers, buffered>>

StoreCSV(items) ==
    /\ storageType = "csv"
    /\ headers' = IF headers = Unset THEN DOMAIN ToFlatMap(items[1]) ELSE headers
    /\ rows' = rows \o [k \in DOMAIN items |-> CsvRow(headers', items[k])]
    /\ UNCHANGED buffered

\* Storage.Store, which storeResults calls with a batch that is not empty.
StoreBatch(items) ==
    /\ status = "open" /\ items # <<>>
    /\ StoreBuffered(items) \/ StoreJSONL(items) \/ StoreCSV(items)
    /\ taken' = taken \o items
    /\ UNCHANGED <<storageType, status>>

\* The array is encoded as a whole or not at all.
CloseJSON ==
    /\ storageType = "json"
    /\ \E s \in SortItems(buffered) : rows' = IF Encoded(s) = s THEN Entries(s) ELSE <<>>

CloseJSONL ==
    /\ storageType \in {"jsonl", "ordered"}
    /\ \E s \in SortItems(buffered) : rows' = rows \o Entries(Encoded(s))

CloseCSV == storageType = "csv" /\ UNCHANGED rows

\* Storage.Close, when storeResults has seen its last item.
CloseStorage ==
    /\ status = "open"
    /\ CloseJSON \/ CloseJSONL \/ CloseCSV
    /\ buffered' = <<>> /\ status' = "closed"
    /\ UNCHANGED <<storageType, taken, headers>>

\* The process dies.
CrashStorage ==
    /\ status = "open"
    /\ buffered' = <<>> /\ status' = "gone"
    /\ UNCHANGED <<storageType, taken, headers, rows>>

\* The items a crawl may give to Store.
Fields == UNION {[names -> Value] : names \in {S \in SUBSET Name : IsFiniteSet(S)}}
Produced ==
    {i \in UNION {
              {CallbackItem(fields, time, url, spider) :
                  fields \in Fields, time \in Nat, url \in Nat, spider \in Nat},
              {ParserItem(page, rules, time, url) : page \in DOMAIN Structured,
                  rules \in Seq(DOMAIN Match), time \in Nat, url \in Nat}} :
        i.fields \in Fields}

NextStorage ==
    \/ OpenStorage \/ CloseStorage \/ CrashStorage
    \/ \E items \in Seq(Produced) : StoreBatch(items)

StorageSpec == InitOutput /\ [][NextStorage]_output

-----------------------------------------------------------------------------
(* Properties. *)

(* docs/REPLAY.md:102-116, order.go:11-31: the file of an ordered storage   *)
(* is determined by the items alone: any order in which workers may have    *)
(* delivered them, and any way ties are broken, give the file there is; and *)
(* an item by its claims, in whatever order a corpus gives them back        *)
(* (derive.go:121-125). A stream has each item as it was given, also when   *)
(* its process died. An item JSON cannot encode costs a stream only what    *)
(* comes after it.                                                          *)
OutputIsDetermined ==
    /\ \A k \in DOMAIN taken : taken[k].claims # <<>> =>
           \A read \in Arrangements(taken[k].claims) : ItemFromAssertions(read) = taken[k].fields
    /\ storageType \in {"json", "ordered"} =>
           IF status # "closed" THEN rows = <<>>
           ELSE \A other \in Arrangements(taken) : \A s \in SortItems(other) :
                    rows = IF storageType = "ordered" \/ Encoded(s) = s THEN Entries(Encoded(s)) ELSE <<>>
    /\ storageType = "jsonl" => IsPrefix(Entries(Encoded(taken)), rows)
    /\ storageType = "csv" =>
           /\ Len(rows) = Len(taken)
           /\ \A k \in DOMAIN rows : \A h \in DOMAIN rows[k] \cap DOMAIN taken[k].fields :
                  rows[k][h] \in {taken[k].fields[h], Text(0)}
=============================================================================
