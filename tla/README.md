# TLA+ models of the pinocchio metadata programs

This directory holds TLA+ models of the account and instruction codecs in
`src/`. They are checked with TLC. The code is sequential: each Solana
instruction runs to completion on one thread. So the hard behaviours are not
interleavings. They are long sequences of legal calls on a persistent account,
boundary lengths, byte-level truncation, and encoder/decoder pairs that
disagree. Every model below keeps the control flow of its code and abstracts
the data to short byte strings over a few characters.

## The system

| Part | Source | State and operations |
|------|--------|----------------------|
| TokenMetadata account | `programs/metadata/src/state/token_metadata.rs` | A zero-copy view of a fixed buffer: `name[32]`, `symbol[32]`, `uri[200]`, and `additional_metadata[32]` slots of `(key[32], value[32])`. Strings are NUL-terminated and zero-padded. Operations: `set_name`, `set_symbol`, `set_uri`, `set_key_value`, `remove_key`, `get_value`, `update(Field)`, and the getters. |
| AssetData codec | `programs/mpl-metadata/src/state/asset_data.rs` | Borsh-like `serialize`, `deserialize` (cursor based) and `calculate_serialized_length`, over name/symbol/uri strings, fee, an optional creators vector, bools, optional token standard, collection, uses, collection details and rule set. |
| Metadata account codec | `programs/mpl-metadata/src/state/metadata.rs` | `serialize`, `deserialize`, `calculate_serialized_length`, `save` (copy into the account) and `load`; embeds AssetData. Also `ProgrammableConfig::serialize`. |
| Variant records | `collection.rs`, `uses.rs`, `creator.rs`, `key.rs`, `token_standard.rs` | Small codecs: Collection, CollectionDetails (V1/V2), Uses/UseMethod, Creator, Key, TokenStandard. |
| Authority records | `uses.rs` (UseAuthorityRecord), `collection.rs` (CollectionAuthorityRecord), `token_metadata_account.rs` | `safe_deserialize` with size and key checks; `pad_length`, `is_correct_account_type`. |
| Instruction builders | `mpl-metadata/src/instructions/{create,transfer}.rs`, `token/.../initialize_mint_2.rs`, `system/.../update_nonce_account.rs` | They build an instruction payload and make a CPI (cross-program invocation). Only the payload bytes are state the code controls. |
| Zero-copy view loaders | `token_metadata.rs` (`from_account_info`, `from_account_info_unchecked`), `mpl-metadata/src/accounts/mod.rs` (`MetadataAccount::from_account_info`) | A length check, an owner check, then a reference into the account bytes: a `Ref` that keeps a shared borrow, or (unchecked) a bare reference. `Metadata::save` is the one place that takes a mutable borrow. |
| ProgramError codes | `sdk/src/program_error.rs` | Mapping between `ProgramError` and `u64`. |
| Derive macro, PDAs, error enum | `mpl-token-metadata-context-derive`, `sdk/pinocchio/src/pubkey.rs`, `error.rs` | Code generation, host syscalls and a list of constants. Not modelled. |

How the parts interact: Metadata embeds AssetData and delegates its bytes to
AssetData's codec. AssetData embeds the variant records. The instruction
builders encode the strings that end up in these accounts. The view loaders
and `save` share the account's borrow state, and every error a loader
returns reaches the runtime through the ProgramError encoding.

## Modules

* `Bytes.tla`: byte primitives.
  * `Utf8Valid`: the acceptance test of `core::str::from_utf8`.
  * `LeBytes`/`LeValue`: little-endian integers.
  * `U32Sat`: a u32 length, saturated at 2^16 (see Bounds).
  * `Address`: a 32-byte key made of one repeated byte.
* `TokenMetadata.tla`: the TokenMetadata account.
  * The state is the buffer itself. `name`, `symbol` and `uri` are byte
    arrays of their capacity. `kv` is the sequence of slots.
  * `call` records the last public call and its arguments. `ret` holds the
    result of the last table call.
  * There is one action per public method. `update` dispatches over the
    `Field` variants, and `remove_key` and `get_value` are called directly.
  * The helpers `ReadStrFromBytes`, `WriteStrToBytes`, `FindKeyIndex` and
    `FirstEmptySlot` translate the private functions.
* `KVStore.tla`: the abstract specification of what the table promises. It is
  a map of bounded capacity with set, remove and get, and the same results
  (`Ok`/`AccountDataTooSmall`, `true`/`false`, `Some`/`None`).
* `MC_TokenMetadata.tla`: the model-checking instance.
  * It defines the character constants and argument sets.
  * It defines the refinement mapping `AbsStoreOf`: for each key, the value
    `find_key_index` reaches. `absStore` is an auxiliary variable that holds
    this mapping, so TLC evaluates it once per state.
  * `KV == INSTANCE KVStore WITH store <- absStore`.
* `AssetDataCodec.tla`: the AssetData codec as operators, with no variables.
  * `Serialize` is `AssetData::serialize`, together with the Creator,
    Collection, Uses and CollectionDetails `serialize` functions.
  * `CalcLen` is `calculate_serialized_length`.
  * `Deserialize` is the cursor parse of `deserialize`. It threads a parse
    state `[err, cur, val]` through one parser per field, in wire order
    (`Layout`, `ReadField`). A failed state passes through unchanged, which
    is how the code's early returns behave.
  * `err` is "", "InvalidData" or "Abort". "Abort" is the allocation failure
    of `Vec::with_capacity`.
  * u64 fields are held as their 8 little-endian bytes. `Canon` gives the
    value the content-inferred CollectionDetails variant turns a value into.
  * `New` is `AssetData::new`. `as_data` and `as_data_v2` build `Data` and
    `DataV2`, which are declared in `state/data.rs`, a file not in `src/`, so
    they are not modelled.
* `AssetData.tla`: the codec applied to an account buffer.
  * `SerializeInto(x)` writes x into the buffer. `DeserializeBuf` decodes it.
  * `Truncate(n)` and `Overwrite(i, v)` stand for untrusted account data.
    Together they happen at most `MAX_EDITS` times per written value.
* `Metadata.tla`: the Metadata account. It extends AssetDataCodec.
  * `MetaSerialize` is `Metadata::serialize` exactly as written: the
    AssetData bytes are computed and dropped.
  * `MetaCalcLen` is `calculate_serialized_length`.
  * `MetaDeserialize` is `deserialize`. It decodes AssetData, then skips it
    by `CalcLen` of the result. It reads the tail with `!= 0` presence
    tests. The four trailing optional fields get their presence byte read
    only.
  * `Save` is `Resizable::save`. `copy_from_slice` panics on a length
    mismatch, and the panic aborts the instruction. `Load` always fails.
    `FromAccountInfo` decodes the account.
  * `Existing(m)` puts an account in the wire format of spec section 4.5
    (`WireEnc`, modelled from the spec), as written by the deployed program.
  * `Resize(n)` is the runtime reallocation the caller performs before
    `save`.
* `Records.tla`: the authority records and typed-account loading.
  * `UarDeserialize` and `CarDeserialize` are the two `safe_deserialize`
    functions. Each checks the exact size, then the key, and CAR also checks
    a strict presence byte.
  * `UseAuthorityRecord` implements the copy of the trait declared in
    `uses.rs` (lines 34-83), `CollectionAuthorityRecord` the one in
    `token_metadata_account.rs`. The helpers are identical line for line,
    but each copy has its own operators (`UarIsCorrectAccountType`,
    `UarPadLength` and `UarFromAccountInfo` for the `uses.rs` copy), and
    `TypeCheck`, `Pad` and `Load` send each record type to its own copy.
    `collection.rs` reaches its trait through `use super::*`, and
    `state/mod.rs` glob-exports both traits under the same name. That name
    is ambiguous to rustc. Since the copies agree, the behaviour is the same
    whichever one resolves.
  * `IsCorrectAccountType` and `PadLength` translate the
    `TokenMetadataAccount` helpers. `FromAccountInfo` decodes, maps every
    decode error to `DataTypeMismatch`, and then checks the owner.
  * The state is one account: its bytes, its owner, the record last written,
    the number of edits and the last load result.
  * `Write(r)` writes the record's Borsh encoding padded by `pad_length`.
    The writer is not in `src/`, so the encoding (`RecordEnc`) is modelled
    from the Borsh layout. `Resize`, `Overwrite` and a foreign owner stand for
    the account handed to the program. `Load(t)` is `from_account_info`.
    `LoadBytes(t)` is `from_bytes` (`UarFromBytes`, `CarFromBytes`): the
    same decode and error mapping, with no owner check, since it only sees
    bytes. `UarDefault` and `CarDefault` are the two `Default` values and
    seed `MC_Records`.
* `Instructions.tla`: the four instruction builders.
  * There is one action per `invoke_signed`. It lays out the payload exactly
    as the code does and adds `[program, ix, args, data]` to the history
    `sent`, which holds at most `MAX_SENDS` distinct instructions.
  * `InitializeMint2` builds its payload in a `MaybeUninit` array and sends
    all 67 bytes. A byte it never writes is a nondeterministic choice from
    `UninitBytes`.
  * `Mint2Unpack` is how the token program reads the payload. It is not in
    `src/`, so it is modelled from the `COption<Pubkey>` wire format.
* `ProgramErrorCodes.tla`: the two `From` conversions between ProgramError
  and u64.
  * A u64 is held as its 32-bit halves `[hi, lo]`, because TLC's integers
    are 32-bit.
  * `Return(e)` encodes an error a program returns. `Receive(x)` decodes a
    code a caller is handed.
* `AccountViews.tla`: one account seen through the view loaders.
  * The state is the account's length and owner, a version counter that
    each successful write steps (the bytes abstracted away), the bag of live
    views `[loader, version, checked]`, and the last result.
  * `TmFromAccountInfo`, `TmFromAccountInfoUnchecked` and
    `MaFromAccountInfo` translate the three loaders: each length check and
    owner check with the error it returns, then the view. A checked view
    holds a shared borrow until `DropView` drops it.
  * `MdFromAccountInfo` is `Metadata::from_account_info`. It takes a
    transient borrow and returns an owned copy, so no view stays. It has no
    length check and no owner check. The bytes are abstracted, so its decode
    succeeds or fails (`InvalidAccountData`) by a nondeterministic choice.
  * `Save` is `Metadata::save`'s `try_borrow_mut_data()?`: it fails with
    `AccountBorrowFailed` while a shared borrow is held, else writes.
  * The borrow rules belong to pinocchio's `AccountInfo`, which is not in
    `src/`; they are modelled from spec section 5.
* `LoadErrors.tla`: AccountViews composed with ProgramErrorCodes (as the
  instance `PE`). `ReturnLoadError` is a handler returning a failed load's
  error with `?`, which the entrypoint encodes as a u64. The other steps of
  each component interleave with it. It adds no error value that
  `PE!Next` does not already return, since every builtin is returned
  there too. What it adds is the link from a load's result to the code the
  caller sees.
* `MC_AssetData.tla`, `MC_Metadata.tla`, `MC_Records.tla`,
  `MC_Instructions.tla`, `MC_LoadErrors.tla`: value sets for TLC.
  `MC_AssetData` also defines `MCCodecSpec`, which tampers only with the
  buffers of three of the values.

## Runs

| Run | Config | Expect | What it shows |
|-----|--------|--------|---------------|
| `tm_ops` | `MC_TokenMetadata_ops.cfg` | pass | There are ASCII setter arguments that are empty, fit, or are longer than every field. Keys and values fit in 2 bytes, including a 2-byte UTF-8 character. The table has 2 slots. `TypeOK` holds. `FieldReadBack`: right after a setter, its getter returns the argument truncated to capacity - 1, whatever the field held. `LookupSound`: no two occupied slots decode to the same key. `KVRefinement`: every set/remove/get step, including `AccountDataTooSmall`, is a step of KVStore. |
| `tm_long_key` | `MC_TokenMetadata_longkey.cfg` | violation | `LookupSound` fails in two steps: `set_key_value("ab")`, then `set_key_value("aba")`. The long key is stored as "ab" but looked up as "aba", so it takes a second slot. After that, `get_value("aba")` is None and `remove_key("ab")` leaves a copy behind. |
| `ad_codec` | `MC_AssetData_codec.cfg` | pass | 516 AssetData values, and every truncation and every overwrite of one byte with 0, 2 or 255 of four of them (one made by `AssetData::new`). `TypeOK` holds. `LengthLockstep`: serialize writes `calculate_serialized_length` bytes. `TruncationRejected`: every strict prefix is rejected. `DecodeConsumesCalcLen`: every successful decode consumed exactly `CalcLen` of its result, which is what `Metadata::deserialize` relies on. `RoundTrip`: deserialize returns `Canon` of the value and consumes every byte. |
| `ad_alloc_abort` | `MC_AssetData_abort.cfg` | violation | `DecodeNoAbort` (spec section 7) fails in one overwrite. In TLC's shortest trace the low byte of the uri length goes from 1 to 2, so the parse runs one byte late and reads a creators length of 2^24. `Vec::with_capacity` then requests more than the heap before any bounds check (`asset_data.rs:281`). Setting the top byte of the creators length itself to 255 reaches the same abort in one step. |
| `md_read` | `MC_Metadata_read.cfg` | pass | Accounts in the wire format, then resizes, saves and one-byte corruptions. `TypeOK` holds. `WireDecodeHead` holds: every field up to `token_standard` is recovered from an untouched account. |
| `md_wire_full` | `MC_Metadata_wirefull.cfg` | violation | `WireDecodeFull` fails: a present `programmable_config` (or collection) decodes as None. |
| `md_save` | `MC_Metadata_save.cfg` | violation | `SavePersists` (spec section 4.5) fails in one step, with no resize. The account written in the wire format already has `calculate_serialized_length` bytes, and `save` into it panics in `copy_from_slice`, because serialize writes no AssetData bytes. A `save` into an account of the shorter serialized length does succeed, but `from_account_info` then reads `primary_sale_happened` and the fields after it as AssetData, and fails. |
| `rec_load` | `MC_Records.cfg` | pass | Four records: both Defaults, and one of each type with nonzero fields. Accounts are owned by the program or by another program, with up to two resizes (to 0, 18 or 35 bytes) or byte overwrites. Loads go through both `from_account_info` and `from_bytes`. `LoadSound`: a load succeeds only on bytes that pass `is_correct_account_type` for the requested type and size, and through `from_account_info` only on a program-owned account. `WrittenLoadsBack`: an untouched record loads back as itself by either path (by `from_account_info` when the program owns the account), and fails to load as the other type. |
| `ix_payload` | `MC_Instructions_payload.cfg` | pass | `Mint2Decodes`: every InitializeMint2 payload unpacks to its arguments, whatever the unwritten bytes hold (0, 1 or 2, so they can look like a flag or an address). Create's strings are fixed to "a" here, which keeps the run small; the next run varies them. |
| `ix_create_split` | `MC_Instructions_create.cfg` | violation | `PayloadInjective` fails: `Create("a", "", "")` and `Create("", "a", "")` send the same bytes, because the strings have no length prefix (spec section 6 asks for the section 4.2 encodings). |
| `ld_views` | `MC_LoadErrors.cfg` | pass | Accounts of 678, 679 and `size_of::<TokenMetadata>()` = 2376 bytes, owned by the program or not; up to two live views and two saves. `TypeOK` holds. `ViewsCurrent`: a view from a `Ref`-returning loader never sees a write while it lives. On the error side: every builtin, Custom(0), 1, 2, 26 and 27, MetadataError 0, 1 and 200, every failed load's error, and 84 codes handed to a caller. `ErrorNeverSuccess`: no returned error encodes as 0. `ReturnRoundTrip`: decoding a returned error's code gives the error back. |
| `ld_owner` | `MC_LoadErrors_owner.cfg` | violation | `OwnerMismatchReported` (spec section 4.1): a view loader handed a foreign-owned account of the length it expects should fail with an owner error. It fails in one step: `MetadataAccount::from_account_info` on a 679-byte account owned by another program returns `InvalidAccountData` (`accounts/mod.rs:29`). `TokenMetadata::from_account_info_unchecked` does the same (`token_metadata.rs:100`), while the checked `from_account_info` returns `InvalidAccountOwner`. `Metadata::from_account_info` has no owner check at all, but the spec does not ask it for one, so it is listed as a hazard rather than checked here. |

### Bounds

**TokenMetadata.** The real capacities are 32, 32 and 200 bytes with 32
slots. The model uses capacities of 2 or 3 bytes and 2 slots. Each code
path depends only on how an argument's length compares with `capacity - 1`,
and on whether a free slot exists. The argument sets cover every one of
these cases:

* an empty argument;
* an argument that fits;
* an argument exactly at the limit or beyond it;
* a multi-byte character;
* a full table that gets `AccountDataTooSmall`, followed by a remove that
  frees a slot.

**Codecs.** Each field is either None or Some. Creators vectors have 0, 1
or 2 entries, and CollectionDetails takes each variant with zero and nonzero
content.

* Tampering overwrites any single byte, including every length, presence,
  bool and discriminant byte. It also truncates at every length.
* One edit is enough: every check in the decoders looks at one field.
* TLC's integers are 32-bit. So u64 values are kept as bytes, and u32
  lengths saturate at 2^16. That is far above every buffer and above the
  32 KiB heap, so every comparison the code makes keeps its outcome.

**Records.** There are two edits per write. That allows a resize followed
by an overwrite, which is enough to give a resized account the other
record's key. The sizes 18 and 35 are the two record sizes, so a record of
one type can be resized to the size of the other.

**Instructions.** `MAX_SENDS = 2`: each property compares at most two
instructions. `Keys = {1, 2}` and `UninitBytes = {0, 1, 2}` let stack
garbage equal either a flag value or an address.

**Views.** Two live views are enough for a checked and an unchecked view
to coexist, and two saves for a write to be refused and then, after a drop,
accepted. 678 bytes fails every length check, 679 passes only
`MetadataAccount`'s, 2376 only `TokenMetadata`'s.

**ProgramError.** The codes cover every upper half from 0 to 27: all 25
builtins, CUSTOM_ZERO, success, and one past the table. Each upper half is
combined with lower halves 0, 1 and 27. So every case of both match tables
is reached.

### Fairness

None is assumed. The programs are single calls with no waiting and nothing
that must eventually happen. All properties are safety properties.

## Plan (later work)

Every component with run-time state now has a module. What is left:

* The checked composition of Metadata over a tampered AssetData: an
  account whose embedded AssetData is corrupted byte by byte. Today the two
  are checked separately: `ad_codec` runs `DecodeConsumesCalcLen`, and
  `md_read` runs one-byte corruption of small accounts.
* Larger bounds for `md_read`: more Metadata values, and two edits.

## Behaviour that is seen but not checked as an error

Two behaviours of the code differ from a literal reading of spec section 8.
The rest of the spec asks for both, so no run treats them as errors:

* Truncating a UTF-8 character.
  * `write_str_to_bytes` truncates at a byte count.
  * `set_name("aé")` into 3 bytes stores `a, 0xC3`, and `name()` then
    returns "".
  * Spec section 7 makes this silent empty read the intended policy.
    `FieldReadBack` is therefore checked on ASCII arguments.
* Content-inferred CollectionDetails.
  * `V1{size: 0}` decodes as `V2`.
  * Spec sections 3 and 9 require this inference, and `RoundTrip` compares
    with `Canon`, the value the inference gives.

## Not modelled

* The derive macro: it is code generation.
* `find_program_address`: a host syscall.
* `error.rs`: a list of constants; only `From<MetadataError>` is
  modelled. Its doc comments number the variants up to 202, but the
  declaration has 201 variants, so from `TokenCloseFailed` (documented
  100, declared 98) every discriminant is two less than documented. The
  models use the declared numbers.
* The CPI calls themselves: the runtime.
* The entrypoint, pda and processor modules, and `state/data.rs` and
  `state/token_state.rs`: they are referenced but not in `src/`.
* The pointer cast of `MetadataAccount::from_account_info` (its checks and
  its `Ref` are in AccountViews). The `repr(C)` struct holds an
  `Option<Vec<Creator>>`, so the cast reads a heap pointer out of account
  bytes, and it has no key byte, so `update_authority` would overlap the
  account's key. Nothing at the level of bytes gives this a meaning TLC
  can check.
* The unchecked view's safety contract. AccountViews reaches a `save`
  under a live unchecked view; `ViewsCurrent` covers only the `Ref`
  loaders, because the unsafe function leaves the borrow to its caller.
* `instruction/delegate.rs`: `Display` formatting only.
* `discriminator.rs`: a constant wrapper.
* `invoke_signed` and the runtime's check of the CPI account list. Create
  passes four account infos for five metas; this is listed as a hazard.
