# TLA+ models of mantisdb's C core (`src/cgo`)

This directory holds TLA+ specifications of the C code under `src/cgo`, the TLC
configurations that check them, and `PROJECT.json`, which lists components,
runs, mutants, the module-to-source map, findings and hazards.

## 1. Inventory

### 1.1 Components

| Component | Source | State it keeps | Operations |
|---|---|---|---|
| Keyword Table | `sql_parser.c` 62-249 | `keywords[]`: 157 `{name, token}` entries sorted by spelling, read-only | `lookup_keyword(str, len)`: binary search with `strncasecmp` plus an exact-length test |
| Character Cursor | `sql_parser.c` 251-352 | `pos`, `line`, `column` over the borrowed `input[0..input_len)` | `lexer_peek`, `lexer_advance`, `lexer_skip_whitespace`, `lexer_skip_comment` (`--` line and `/* */` block comments) |
| Literal Scanners | `sql_parser.c` 354-707 | write `current_token` (`type`, `value` buffer, `length`) and `error_msg` | `lexer_scan_string`, `lexer_scan_number`, `lexer_scan_identifier`, `lexer_scan_operator` |
| Lexer Driver | `sql_parser.c` 269-298, 709-769; `sql_parser.h` 299-328 | `Lexer`: input, cursor, one `current_token`, `has_current`, `error_msg` | `lexer_create`, `lexer_next_token`, `lexer_current_token`, `lexer_error`, `lexer_destroy` |
| Parser driver | `sql_parser.c` 911-977 | `Parser`: a lexer, `tokens`, `error_msg`, `parse_tree` | `parser_create`, `parser_parse` (tokenize everything into a `List` of copied tokens), `parser_error`, `parser_destroy` |
| Node/List utilities | `sql_parser.c` 771-812 | `List {length, elements}` | `make_node`, `make_list`, `list_append`, `list_prepend`, `list_nth`, `list_length` |
| Memory/string utilities | `sql_parser.c` 9-60 | none (heap buffers) | `palloc`/`palloc0` (exit on OOM), `pfree`, `pstrdup`, `pg_strcasecmp` (unused) |
| Cost model, statistics, planning | `sql_parser.c` 814-909, 979-996 | none | `cost_*` floating-point formulas, `collect_table_stats`, `estimate_selectivity`, `create_plan`, `optimize_query` (constants) |
| B-tree | `btree.c` | one root node: `keys[MAX_KEYS]`, `values[MAX_KEYS]`, `num_keys` (children unused) | `btree_create`, `btree_insert` (append if room), `btree_search` (first match), `btree_delete` (remove first match, shift down), `btree_destroy` |
| Buffer pool | `buffer_pool.c` | `pages[num_pages]` (`page_id`, `dirty`, `pinned`, `ref_count`), `free_list`, `free_count` | `buffer_pool_create`, `buffer_pool_get_page` (pop the free list), `buffer_pool_release_page` (decrement, push at 0), `buffer_pool_destroy` |
| Storage engine | `storage_engine.c`, `storage_engine.h` | `{btree, buffer_pool, data_dir}` | `storage_engine_init`, `storage_engine_cleanup`, `storage_engine_put/get/delete` (delegate to the B-tree) |

### 1.2 How they interact

Everything is sequential and single-threaded: there are no threads, callbacks,
messages or persistence (`btree_t.filename` is stored and never used).
The interactions are calls and state shared across calls:

* `parser_parse` calls `lexer_next_token` in a loop; each call frees the
  buffer of the token it held, runs the skip loop (whitespace and comments),
  records the location, dispatches on the lookahead byte to one scanner and
  stores the result in the single `current_token` slot; `parser_parse` copies
  each token into its list and stops at EOF or at the first failure.
* Each scanner moves the cursor only through `lexer_advance`, the keyword
  scanner calls `lookup_keyword`, and failures go through `lexer_set_error`.
* The storage engine owns one B-tree and one buffer pool; `put/get/delete` go
  to the B-tree only, and the buffer pool is created and destroyed but never
  used by the engine.

### 1.3 What is hard

No concurrency, so the hard behaviours are sequences of calls and boundaries:

* the lookahead logic of the scanners (greedy operators read `next` before
  advancing and the third byte after; numerals need a digit after `.` and
  after `e[+-]`; the block-comment loop stops at `pos + 1 < input_len`);
* the keyword binary search on a table whose spellings are prefixes of each
  other;
* the ownership of the token buffer across calls, including calls after a
  failure, and the fixed 3-byte operator buffer;
* line/column bookkeeping across newlines;
* termination of a caller's token loop, and what calls after the end of
  input or after a failure return (a second `parser_parse`; an error message
  that is never cleared, so `parser_error` can report a failure of an
  earlier call);
* the unchecked `realloc` of the List utilities;
* in the storage layer: duplicate keys in the B-tree, capacity limits, and
  stale or repeated page releases in the buffer pool.

`PROJECT.json` "hazards" lists each of these at its source line, with the
properties that cover it.

### 1.4 What makes each component correct

* Keyword Table: a word is a reserved word exactly when its lower-cased
  spelling is in the table, with that entry's token, whatever the letter case.
* Cursor: `line`/`column` always count the newlines and bytes consumed; an
  unclosed block comment swallows the rest of the input (spec 4.1).
* Scanners: a token is exactly the bytes consumed for it; operators match
  greedily; numerals follow the grammar by maximal munch; string values are
  decoded (spec 3, 8); every write stays inside its buffer.
* Driver: each call frees what the previous one left; repeated calls,
  including after errors, reach the EOF token.
* Parser driver: the list is the token stream up to EOF, or the error is
  reported.
* B-tree / storage engine: `get` returns the last value `put` for a key that
  was not deleted since (key-value semantics); the capacity is respected.
* Buffer pool: a page is either free (on the free list exactly once) or
  pinned, never both, and `free_count <= num_pages`, even when callers
  release stale pointers; while none does, a pinned page has one holder.

## 2. Plan

Modules in the order they are built, the most important behaviour first:

1. `KeywordTable`: the table and `lookup_keyword` as operators (done).
2. `PgUtils` (extends `KeywordTable`): `palloc`, `pstrdup` and
   `pg_strcasecmp` as operators (done).
3. `Lexer` (extends `PgUtils`): the cursor, scanners and driver; one
   action per `lexer_next_token` outcome and `lexer_destroy` (done). `MCLexer`
   supplies the input alphabets.
4. `Parser` (extends `Lexer`): `parser_create`, one step per iteration of
   `parser_parse`'s loop, `parser_error` and `parser_destroy`, with
   `make_list`, `list_append`, `list_prepend`, `list_nth`, `list_length` as
   sequence operators (done).
5. `TokenStream` (abstract): the token-stream contract of spec 4.4 and 6,
   with the lexer under `parser_parse` shown to implement it (done). A
   reference tokenizer written from the grammar of spec 4 is still open; it
   would differ from the code exactly at the known divergences.
6. `KVStore` (abstract) and `BTree`: the root array with `MAX_KEYS` as a
   constant, shown to implement the key-value map (done).
7. `BufferPool`: frames, free stack and ref counts, with callers as model
   values, including callers that release a stale pointer (done).
8. `StorageEngine`: composes `BTree` by INSTANCE with the pool handle; init
   with partial failure and cleanup (done).
The project keeps at most twelve runs; `parser_progress` took the place of
the former lexer-only progress run.

## 3. Modules

### KeywordTable
Constant operators only. `Keywords` is `keywords[]` with each spelling as a
sequence of one-character strings; `CharCode`/`ToLower` give the bytes that
`strncasecmp` compares; `CaseCmpFrom`/`StrNCaseCmp` are
`strncasecmp(str, name, len)`; `BSearch`/`LookupKeyword` are the loop of
`lookup_keyword` over 0-based `left`/`right`/`mid`. `KeywordOf` is the
reference definition (table membership of the lower-cased word) used by the
properties.

### PgUtils
Constant operators for the utilities at the top of `sql_parser.c`. A heap
buffer is `[text, size]`; `palloc(size)` is an empty one of `size` bytes
(the scanners then write the lexeme into it), `pstrdup` a copy sized
`strlen + 1` (used for the parser's token copies), and `pg_strcasecmp` the
recursive form of its byte loop, with its NULL branch as written.
`pg_malloc`'s `exit(1)` on out-of-memory is left out: every allocation
succeeds. `StrcasecmpIsCaseInsensitiveEq` (in `Lexer`, so that the inputs
supply the strings) compares `pg_strcasecmp` with the reference
`CaseInsensitiveEqual` on every pair of letter runs of the input.

### Lexer
Variables: `input` (the borrowed buffer), `pos`, `line`, `column`, `tok`
(`current_token`: `type`, `value`, `loc`), `has_current`, `err`
(`error_msg`), `leaked` (token buffers whose last pointer was overwritten) and
`alive` (until `lexer_destroy`). The token buffer is `NULL` or
`[text, size]`: the bytes written into it and the bytes `palloc` gave it.

Each call of `lexer_next_token` is one step: `NextTokenEOF` when the skip loop
reaches the end, `NextTokenScan` otherwise. The loops of the C code are
recursive operators over the position (`SkipWhitespace`, `ToLineEnd`,
`ToBlockEnd`, `SkipInsignificant`, `StringBody`, `DigitRun`, `AlnumRun`);
`line`/`column` are the fold of `lexer_advance`'s per-byte step
(`AdvanceLineCol`) over the bytes consumed, which is exact because every
position change in the C code goes through `lexer_advance`. `OpMatch` keeps
the nested `next`/third-byte tests of `lexer_scan_operator`'s switch.
Literal values (`strtoll`, `strtod`) and `length` (always `Len(text)`) are
left out; the token type of a failed call, which no reader can see, is left
unchanged. The accessors `lexer_current_token` (the token, or `NULL` after a
failed call) and `lexer_error` are operators.

### BufferPool
Variables: `pool` (live / failed create / destroyed), `pinned` and
`ref_count` per frame, `free_list` (the live prefix
`free_list[0 .. free_count-1]` as a sequence, top last), `got` (per caller,
the frames it ever got a pointer to), `holds` (those it got and has not
released since) and `misused` (some caller released a pointer it no longer
held). `Init` is
`buffer_pool_create` (the allocations may fail); `GetPage(h)` is
`buffer_pool_get_page` (its NULL return when `free_count = 0` changes nothing
and is the guard); `ReleasePage(h, f)` is `buffer_pool_release_page`;
`Destroy` is `buffer_pool_destroy`. `release_page` cannot tell a held
pointer from a stale one, so a caller may release any pointer it got, while
the pool is alive; the named bound `MinRefCount = -1` stops stale releases
once a `ref_count` is negative. `FreeListExact` is checked on every such
history, `ExclusivePin` on the histories without a stale release.
`page_id`, `dirty` and the page data have no reader and are left out.

### KVStore
The abstract promise of the storage layer: `store`, a function from keys to
values or `None`, and `last`, the last call with its argument and return.
`put` sets the value and returns 0, or fails with -1 and changes nothing;
`get` returns the value; `delete` returns 0 and removes a present value, else
-1. No source is modelled here.

### BTree
Variables: `tree` (live / failed create / destroyed), `entries` (the root's
`keys[i]`, `values[i]` for `i < num_keys`, in order) and `last`. One action
per function: `btree_insert` (append when `num_keys < MAX_KEYS`, with no
search for the key), `btree_search` (first match), `btree_delete` (remove the
first match and shift the tail down), `btree_destroy`. The refinement mapping
gives each key the value of its first entry, which is what `btree_search`
returns; `KVRefinement` checks `KVStore`'s `Spec` under it. The constant
`PutNewKeysOnly` restricts callers to putting absent keys.

### StorageEngine
Variables: `engine`, the `btree` and `buffer_pool` handles, and the B-tree's
`entries` and `last`. `StorageEngineInit` is `storage_engine_init`: the
engine's malloc may fail, and otherwise each of `buffer_pool_create` and
`btree_create` may fail, after which `storage_engine_cleanup` destroys what
exists and NULL is returned. `storage_engine_put/get/delete` are the
functions of `BTree` (`BT == INSTANCE BTree WITH tree <- btree`) on a live
engine, and -1 or NULL on a NULL one. The engine never gets a page, so the
pool is modelled by its handle only.

### Parser
Extends `Lexer` (the parser owns exactly one lexer) with `pstate`, `pc`
(`"loop"` while `parser_parse` runs), `tokens` (the List being filled) and
`parse_tree`. `ParserInit` is `parser_create`; a call of `parser_parse` is
`ParseBegin` (the new List) followed by `ParseStep`s, each one call of
`lexer_next_token` (the Lexer's `NextToken`) with the copy-and-append or the
break that follows it, the last one storing the List in `parse_tree`.
Splitting the call into steps changes nothing observable, as nothing else
runs during it. `ParserDestroy` is `parser_destroy` (it calls `lexer_destroy`
and frees neither List). `ParserError` is `parser_error`, which falls back to
the lexer's message because `parser->error_msg` is never assigned. The bound
`MaxTokens = MaxLen` guards `ParseStep` only to keep the state space finite
under faulty variants: each token takes at least one byte, so it never
binds.

`list_length` and `list_nth` (0-based, `NULL` out of range) are how a caller
reads the returned List; `ParseListInSourceOrder` is stated through them.

### TokenStream
The abstract promise of "produce next token" (spec 4.4, 6): `phase`
(`ready`, `ended`, `errored`, `closed`), `cursor`, `current` (the token the
caller can read, or `NoToken`) and `text`. `Yield` is a token that starts at
or after the cursor and moves the cursor past its first byte; `End` is the
end-of-input token at the end of the text; `Fail` leaves no token and a
cursor that has not gone back; `Close` is teardown. Nothing leaves `ended`
but `Close`, so a call after EOF must be a stuttering step: the same token
at the same place, which is spec 6's idempotent end of stream. `Parser`
maps the Lexer onto it: `current` is `lexer_current_token`, `cursor` is
`pos`, and the phase is read from `alive`, `has_current`, the token type and
`error_msg` (a failed call is the only way to a non-NULL message without a
token). `TokenStreamRefinement` checks `TokenStream!Spec` under this mapping.

## 4. Runs

For the lexer runs (module `MCLexer`) the input is nondeterministic: `Init` picks any sequence of at most `MaxLen`
bytes over `Alphabet`, and the lexer then runs on it, so every input over the
alphabet is checked. `NULL` is a model value. `CHECK_DEADLOCK FALSE` because
after `lexer_destroy` the lexer really takes no further step.

| Run | Alphabet, MaxLen | Checks | Result |
|---|---|---|---|
| `lexer_operators` | 12 operator bytes incl. `$` and a digit, 4 | `GreedyOperator` | pass |
| `lexer_literals` | `' \ / * - \n a 1 . e n d A N`, 4 | `TypeOK`, `LocationTracksInput`, `LexemeAtLocation`, `NumberMaximalMunch`, `KeywordClassification`, `ScanAdvances`, `StrcasecmpIsCaseInsensitiveEq` | pass |
| `parser_progress` | `' 1 e a - / * ! $`, 3, repeated `parser_parse` | `ParseErrorReported`, `ParseListInSourceOrder`, `ParseTerminates` under `WF(ParseStep)`, `TokenStreamRefinement` | pass |
| `keyword_as_ident` | `a s`, 2 | `KeywordComplete` | violation: `as` is IDENT |
| `string_raw_text` | `' a`, 3 | `RawTextIsSource` | violation |
| `string_not_decoded` | `' a`, 4 | `StringValueDecoded` | violation |
| `operator_overflow` | operator bytes, 3 | `ValueWithinBuffer` | violation: `->>` |
| `leak_after_error` | `! a`, 2 | `NoLeakedTokenBuffer` | violation: input `!`, the failed scan of `!` then the end-of-input call |
| `unterminated_comment` | `/ * a`, 3 | `UnterminatedCommentEndsInput` | violation: `/*/` yields DIVIDE for the last `/` |
| `buffer_pool` | 3 frames, 3 callers, stale releases | `TypeOK`, `FreeListExact`, `ExclusivePin` | pass |
| `storage_engine` | keys `k1 k2 k3`, values `v1 v2`, `MAX_KEYS` 2, new keys only | `TypeOK`, `EngineOwnsComponents`, `KVRefinement` | pass |
| `btree_duplicate_put` | same, any key may be put | `KVRefinement` | violation: put `k1 v1`, put `k1 v2` |

Why the bounds are enough: the scanners look at most two bytes past the
current one, so four bytes hold every lookahead case of an operator (`->>`
followed by a byte, `!~*`, `$1`), a string with a doubled quote or an escape
at the end, a numeral with fraction or exponent (`1.1e`, `1e-1`) and a comment
closed or not. The literals run also reaches the keyword `and` and its
prefixes in every letter case. The parser run includes every failing path (`'`, `1e`, `!`,
`$`) followed by more input.

For the buffer pool, three frames let the free stack be popped and refilled
in every order by three callers, each holding up to all frames; a stale
release needs two callers and one frame handed out twice, so a double
release that lands on a re-issued frame is reached. For the
B-tree, `MAX_KEYS = 2` with three keys reaches a full root that refuses a
new key, and a delete of the first of two entries exercises the shift; the
engine run lets each allocation of init fail. Callers of the buffer pool
are interchangeable, so `BufferPool.cfg` uses symmetry over them; frames are
not (the stack orders them).

Fairness: `ParseTerminates` assumes weak fairness of `ParseStep` only: once
`parser_parse` is entered its loop runs without waiting on anything, while
whether the caller calls `parser_parse` again, or destroys the parser, is
its choice and gets no fairness. The lexer's own progress is the safety
property `ScanAdvances` (every call that reaches a scanner moves the cursor,
failed or not), which is why a loop that ignored failures would still end:
the faulty variant that only `continue`s at EOF instead of breaking is what
`ParseTerminates` catches.

## 5. Findings

* `lookup_keyword` (line 241) goes right when `strncasecmp` reports a prefix
  match of a longer spelling; `as`, `char`, `in`, `no`, `on`, `or`, `over` and
  `time` are returned as identifiers.
* `lexer_scan_operator` writes `value[3]` into a `palloc(3)` buffer for `->>`,
  `#>>` and `!~*`.
* After a failed operator scan the buffer it allocated is not freed by the
  next call and is leaked: on the input `!` the end-of-input call that
  follows the failure overwrites the pointer.
* An unclosed block comment leaves its last byte to be scanned as a token
  (`/*/` yields DIVIDE for the final `/`), while spec 4.1/8 says the rest is
  swallowed and EOF follows.
* String values are the raw body without quotes: neither the source text at
  the token's location (spec 3) nor decoded (spec 8).

* `btree_insert` appends a second entry for a key already present and
  reports success, and `btree_search` returns the first, so a put cannot
  replace a value (get keeps returning the old one, which reappears after a
  delete), while spec.md calls this layer a key-value store.

## 6. Not modelled

* Cost model, statistics and planning: stateless floating-point formulas and
  constants; TLC has no reals and there is no control to check.
* `make_node`: no caller in the source; it allocates a Node nothing reads.
* Who frees the Lists of earlier `parser_parse` calls: nothing does, and no
  property is about memory the parser never frees. What a second call
  returns is checked: after EOF, an empty List (`TokenStreamRefinement`).
* Allocation failure: `pg_malloc` exits the process, and the unchecked
  `realloc` of `list_append`/`list_prepend` would crash; neither has a
  recovery path to check.
* Out-of-memory: `pg_malloc` exits the process; `palloc0`, `pfree` and
  `pg_strdup` change nothing beyond the buffer records.
* `pg_strcasecmp` with a NULL argument: it returns `s1 != s2`, the inverse
  of its own convention (TRUE means equal), but it has no caller and nothing
  states its NULL contract, so only the non-NULL loop is checked.
* Literal values (`strtoll`, `strtod`): spec 3 only says an integer literal
  is a 64-bit signed value, and nothing says what an out-of-range literal
  (20 digits and more, where `strtoll` saturates) should give, so a property
  would restate `strtoll`'s own contract; the inputs are also far past the
  exhaustive bounds.
* Key and value lengths in `btree_insert` (fixed 256/1024-byte slots filled
  by `strcpy`): keys and values are model values.
* Buffer pool misuse beyond stale releases: releasing a pointer that never
  came from `get_page`, or any call after `buffer_pool_destroy`, is undefined
  behaviour with no outcome to enumerate.
