# rpi-tools: specifications

TLA+ specifications of the stateful programs of rpi-tools, the TLC
configurations that check them, and theorems about them that TLAPS proves.
Paths are relative to the repository (`src/...`); `PROJECT.json` maps every
definition to the lines it models and lists runs, hazards, findings and
theorems.

## 1. The system

The repository is a set of separate programs for Raspberry Pi machines. Those
that keep state over several steps, and what makes them hard:

| component | state | operations | what is hard | what makes it correct |
|---|---|---|---|---|
| android-auto, gadget (`android-auto/main.cpp`) | `thread_args`: `stop`, `fd_in`, `fd_out`, static and unlocked | `handle_ep0`, `handle_setup_request`, `init_ep` on the main thread; a detached `io_thread` per SET_CONFIGURATION | two threads over shared descriptors, a wait by the clock (200 ms), calls whose failure is ignored | one io thread at a time, endpoints open while it serves, no descriptor lost, every request answered |
| android-auto, protocol (`aap.cpp`, `aap.h`) | `AAConnection::state`, the SSL object, two memory BIOs | `handle_incoming_frame`, `handle_incoming_packet`, the three handlers, `maybeSendOutgoingCiphertext` | sends only after a read; the connection object outlives the head unit | each message answered once and in order, no flight left behind, connected means online |
| webusbboot, push (`pi-usbboot.js` 315-421) | globals `payload`, `header`; `position`, `length` of each push | `fetchFirmware`, `asyncFetch`, `connectToPi`, `checkChunk` | promise callbacks that read globals anew, partial transfers, fetches answered in any order | the device gets one file, whole, in order; a push ends |
| webusbboot, file server (174-313) | globals `fileserv_root`, `file_overrides`; `start` of `ep_write` | `updateRoot`, `fileserverMain`, `checkFileserverRequest`, `ep_write` | a file is served by two requests with a choice of root between them; missing files; unplugging | the size told is the size sent, reads are whole, every request is answered |
| webusbboot, device table (47-172) | `devices`, the DOM, the checkbox `autopush` | `handleNewDevice`, `figureOutMode`, connect and disconnect events, `requestAccess`, the buttons | events during an asynchronous lookup, a lookup that closes a device in use, no retry | with autopush a Pi boots with no click; one that is plugged in is served |
| keyboard-proxy (`keyboard-proxy/main.c`) | `modifiers` | one loop: epoll, read, report, write | events batched in any way, reports built from one batch | modifiers follow the keyboard, the host is in step once all is read |
| eeprom-v2 `uncompress` (`eeprom-v2/main.cpp` 18-50) | ring `outbuf`, byte indices | literal, match | byte arithmetic, reads past the end, termination | output as from an unbounded history, bounded, returns |
| USB strings (`android-auto/usbstring.c`) | none | `usb_gadget_get_string`, `utf8_to_utf16le` | masks on bytes, lengths in one byte | the host reads the text, or gets a stall |
| SHA-256 (`eeprom-v2/sha256.c`) | `ctx`: a block, its fill, the count of bits | `sha256_init`, `_update`, `_final` | lengths around 56 and 64 | what is hashed is the padded message |
| elf-tool | slots of the tables found | a scan of a boot ROM | rounding, entries without data, four slots | a loader gets what the ROM's start-up code would lay out |
| `utils/pv_dumper.cc` `dump_hvs` | index in a display list | a walk with a step over each plane | planes of four lengths, words that look like others | every word is named as the scaler takes it |
| `utils/`: `mapmem`, ramdumper, `hexdump_ram` | a mapping of whole pages | map, dump, unmap | two addresses for each byte | what was asked for is mapped and shown |
| edid generator | a block of 128 bytes | `add_detailed`, the checksum | fields cut in pieces | a display reads the timing back |
| `utils/tearing-test.cpp` | two frames, a round | draw, flip, read the event | the kernel refuses a flip, an uninitialised pitch | flips in turn, and an end |
| EEPROM readers (`eeprom-v2/main.cpp`, `eeprom/extractor.js`, `eeprom/SpiFs.hs`) | offset in the image | `unpack_eeprom`, `process_eeprom`, `readEntry` | three formulas for the next chunk, an exception out of `signing-tool/bootcode.js` | no chunk missed but those that each reader is known to miss |

The rest are signing-tool (but for the exception above), the other DRM tools
and register inspectors of `utils/`, smi-test, rom_sim, boottime, pi5_voltage,
and the nix expressions. They are listed in section 7.

Interactions: the gadget's io thread drives the protocol of `aap.cpp` (call),
and ep0 and the io threads share `thread_args` (memory). The two halves of
webusbboot share a page (globals, promises, one event loop); file server and
push serve different boot modes of the same device, and the device table starts
them and, with a lookup of a device in use, ends them. ep0 answers a string
request with `usb_gadget_get_string`; `unpack_eeprom` decompresses a packed
chunk with `uncompress` and hashes the result with `sha256.c`; `process_eeprom`
calls `parse_bootcode` of `signing-tool/bootcode.js`. The other programs do not
interact.

## 2. Modules

| module | models | how |
|---|---|---|
| `EndpointPair` | what android-auto promises about its two bulk endpoints | opened while nobody serves, owned by one thread, closed by the owner |
| `Gadget` | `android-auto/main.cpp` | variables `stop`, `fd` are `thread_args`; `ep0` and `io[t]` are the control points of the two kinds of thread; `files` is the kernel's descriptor table; a step is the code between two accesses to what the threads share. `Open`/`Configure` are the halves of `init_ep`, `CloseFd`/`ClearFd` the four lines 468-474 |
| `MCGadget` | | one setup request for each path of `handle_setup_request` |
| `GadgetProofs` | | theorems |
| `Aap` | `aap.cpp`, `aap.h`, and lines 439-466 of `io_thread` | one action per handler; the head unit and OpenSSL's server side are external, the BIOs are sequences of flights |
| `AapProofs` | | theorems |
| `PushBootcode`, `MCPushBootcode` | `pi-usbboot.js` push | one action per promise callback; `seen` is a history variable |
| `FileServer` | `pi-usbboot.js` file server | one action per promise callback; the Pi is external; `used` is a history variable |
| `WebUsb`, `MCWebUsb` | `pi-usbboot.js` device table, with `PushBootcode` and `FileServer` | EXTENDS both; a connection is a `USBDevice` object (`object`), a call of `figureOutMode` an element of `lookups`, an element of the page one of `entries`, of which `devices` has the last. `TransfersEnd` is what a close or an unplugging does to the transfers of the other two modules; only an unplugging makes the Pi `gone`. `named` says whether `figureOutMode` knows the mode by the device's names, without asking. `disturbed` is a history variable |
| `WebUsbProofs` | | theorems about both halves of webusbboot, alone and in the page |
| `KeyboardProxy` | `keyboard-proxy/main.c` | one iteration of the loop is one step; the evdev queue is external; `folded` is a history variable |
| `KeyboardProofs` | | theorems |
| `LzStream` | what LZ decompression is, with an unbounded history | |
| `Lz`, `LzProofs` | `uncompress` | one action per command byte, literal, match and copied byte; the input is any byte at every read |
| `EepromReaders`, `MCEepromReaders`, `EepromProofs` | the chunk loops, and `parse_bootcode` as far as it ends one | one action per chunk and reader; what is written of a chunk is data and left out, names are taken to be valid |
| `UsbString`, `ElfTool`, `HvsList`, `MemoryWindow`, `Edid` | the pure parts of these programs | operators from an input to an output, a loop over an input as the fold of its rounds (`Convert`, `NextSlot`, `Visit`), and behind them the reference: UTF-8 of characters and what a host reads, what a linker lays out and a loader gets, a list as the scaler reads it, how a display reads a timing |
| `Sha256` | `sha256_init`, `_update`, `_final` | one action per byte of the message; a byte is named by its position, and the hash is the sequence of the blocks transformed |
| `PageFlip` | `kms()` of `tearing-test.cpp` | one action per call; the kernel's side (pending flip, events) is external; `refused` is a history variable |
| `HostTools`, `MCHostTools` | drives the seven modules above | a behaviour is one of them at work on one input |
| `HostToolsProofs` | | theorems |
| `FoldTheorems` | | what the proofs need about folds: see section 4 |

`Gadget` is shown to implement `EndpointPair`, and `Lz` to implement
`LzStream`, each by INSTANCE ... WITH and the abstract specification as a
property.

A name that ends in what a plausible slip would do (`WakeEarly`,
`CheckChunkPast`, ...), with a comment that begins `mutant:`, is a mutated form of
the definition below it: each property of each passing run is violated when its
mutant takes the place of the definition.

## 3. Runs

| run | configuration | shows |
|---|---|---|
| `gadget_prompt` | 2 threads, 5 descriptors, every kind of request; the gadget, ep0 reads, asserts and `select` may fail; the io thread ends within 200 ms and the host waits after a SET_CONFIGURATION 0 | exclusive io threads, both endpoints open and stable while served, descriptors accounted for, `EndpointPair`, `stop` takes effect, a configuration is served |
| `gadget_free` | 2 threads, 3 descriptors, neither assumption, `open`, `pthread_create` and the write of a packet may fail | types, and that every setup request is answered |
| `gadget_no_wait` | as `gadget_prompt`, but a host that does not wait | violation, finding 1 |
| `aap` | 2 connections, 2 unexpected frames each, 3 frames on the wire | the handshake of the first head unit: online when connected says so, never refused, completed |
| `aap_stale_session` | the same | violation, finding 2 |
| `webusb` | one Pi, 2 connections, 2 elements in the page, 3 disturbances; files of 3 and 2 units, slices of 2, any partial transfer; 2 roots, 2 files: overridden below one root, missing below one, lengths 1, 2 and 3 with chunks of 2 | a push is exact unless the payload changes, skips no offset and ends; sizes are kept, reads whole, requests of a Pi that stays plugged in served, with autopush also after a second lookup between two files; a Pi boots unattended |
| `push_mixed` | `PushBootcode` alone, the same files | violation, finding 3 |
| `keyboard` | 3 keys, 2 of them modifiers, a queue of 9 events, reads of 6, reports of 2 keys | modifiers at rest; the host in step, unless the last batch had a key go down and up or its write failed |
| `lz_decode` | bytes of 2 bits, commands of 2 bits, inputs of up to 5 bytes | ring = history, `LzStream`, bounds, termination |
| `eeprom` | all images of 1 and 2 chunks of 13 kinds (boot codes of 7, 8, 276, 277 and 284 bytes, around where the footer gets too short; a length at the mask), three endings, with and without a `keys.js`, a mask of 512 | no reader loses step, or a chunk but those of `Handled` |
| `host_tools` | strings of up to 3 characters of every length in UTF-8, and ASCII around `MaxChars`; ROMs of up to 2 pieces, tables of up to 5 entries; messages of 0 to 130 bytes; display lists of up to 3 planes on both models; areas at and across the ends of pages of 64 bytes; timings at the limits of their fields; 3 rounds of flips | each output is what its reader makes of it, section 1; flips in turn, and an end |
| `usb_strings` | the same | violation, finding 4 |

Bounds. Two io threads are enough for one to overlap another, which is what
every property of `Gadget` excludes; the theorems hold for any number. One push
is modelled: pushes share only what they read, `payload` and `header`, so a
second one adds no behaviour to the first. In `webusb`, two connections are a
Pi in its ROM loader and in its firmware, two elements the same device entered
twice; `MaxDisturbed` bounds how often, together, the user fetches or asks for
a device, a fetch fails or is lost, a transfer fails, or the Pi is unplugged:
three are a fetch, a second lookup and an unplugging during one push. What the
user selects is chosen while it matters (a file before the firmware asks, a
root once it may), one fetch of a file is under way, the server is not started
while one runs or on a Pi that was left in the middle of a file, and no boot
code is being fetched once the Pi asks for files; a file that is being fetched
for the Pi when its device is closed does not arrive after it is open again. A
file needs two slices, one of them partial, for every case of `checkChunk`.
`MaxQueue` exceeds `MaxRead`, so that packets are split between reads, and
`MaxKeys` is below what a batch may press. A ring of 4 bytes wraps, and an
offset of 3 + 1 becomes 0, within five input bytes. Two chunks have a start
after a rounded end, and the mask of 512 cuts one of the sample lengths. The
tools of `host_tools` have their own sizes (`BlockSize`, `MaxSlots`,
`ListWindow`, `RomOffset`), but for `MaxChars`, 40 instead of 126, which is any
number of rounds of the conversion, `PageSize`, 64 here to have areas on
several pages, and `Rounds`, 3 instead of 100, which are alike; the theorems
hold for the sizes of the code as well. 130 bytes are every remainder of a
block, twice; three planes of seven to nine words are more than a window of 16.

CHECK_DEADLOCK is off where the programs really stop: the daemon exits or
aborts, the head unit is online and silent, the server stops, the proxy exits,
`uncompress` returns, the readers and tools end, the Pi is unplugged for the
last time.

### Fairness

* `Gadget`: the scheduler runs both threads. `handle_ep0` blocks only in
  `usleep` and in reading the next request, for which nothing is assumed;
  an io thread waits at most 10 ms in `select`, and a blocked `write` is what
  `SlowIo` allows to last longer than ep0's wait (it still ends).
* `Aap`: the io thread loops for ever; a head unit that is connected goes on
  with its handshake, nothing is assumed of its noise or of the cable.
* `WebUsb`: a transfer, a lookup or a request that is started ends, well or
  badly; a Pi that has its boot code starts it, goes away and comes back, and
  one that was told a size reads the file; nothing is assumed of the user, nor
  that a fetch of boot code is answered. `FetchLost` and
  `FetchUnanswered` are requests that get no answer: there is no `onerror`,
  their promises are never settled.
* `PushBootcode`: the transfers of a push, as above.
* `HostTools`: the test of tearing runs on, and the display refreshes. Nothing
  is assumed of what the kernel answers to a flip.
* `Lz`: one call that runs on.
* `KeyboardProxy`, `EepromReaders`: no liveness is stated, no fairness assumed.

## 4. What is proved

tlapm checks every step of the following for all values of the constants.

`GadgetProofs`, for any threads, descriptors and requests:

* `TypeCorrect`: `[]TypeOK`, with no other assumption.
* `Exclusive`, `Stable`: under `Prompt` (an io thread ends within the wait of
  ep0, and the host leaves as much time after a SET_CONFIGURATION 0). The
  inductive invariant `WaitInv` says that at the control points between the
  wait and `pthread_create` no io thread is left; a thread is only created
  there. Without `Prompt` the run `gadget_no_wait` shows it false.
* `Accounted`, `InOpen`, `ImplementsEndpointPair`: under `Prompt` and
  `ConfigWritten` (the write of an endpoint's configuration does not fail;
  opens may). `DescriptorInv` adds `FilesInv` (who has which file at each of
  the four steps of leaving) and `PhaseInv` (what the descriptors are at each
  control point of ep0): needed because a descriptor is closed, cleared, opened
  and tested in different steps, by different threads.
* `OutOpen`: if moreover no open fails, which is what the run `gadget_prompt`
  has too. `OutInv` adds that the two descriptors are set together but between
  their two opens. That an open does not fail is not that there is a free
  descriptor: that follows, from one stdin and at most one endpoint file open.

`AapProofs`, for any number of head units and any noise on the wire:
`TypeCorrect`; `FirstOnline` and `FirstAccepted`, of the first head unit. Their
inductive invariant `FirstInPhase` says for each point of the head unit's
handshake what frames and flights are under way in either direction, what
`state` and `tls` are, and that nothing of the handshake is left in a BIO
between two reads: none of these alone is inductive, since an answer is right
only if the question before it was answered once. It does not hold of a second
head unit (finding 2).

`WebUsbProofs`, for any files, slices, chunks, roots and number of pushes,
each theorem of its module alone and again of the whole page, whose steps are
those of the module or end what is under way, or begin it anew:

* `PushOrder`, `PushExact` (`PageOrder`, `PageExact`): by `PushInv`, which
  relates `position` to what the device has (`InOrder`, whatever is fetched),
  and, as long as `seen` has one file, what is being sent to that file
  (`OnePayload`), with the header of the payload (`HeaderFits`). The page needs
  one Pi (`OnePi`).
* `ServerSize`, `ServerWhole` (`PageSize`, `PageWhole`): `ServerInv` says what
  the request, the file fetched and `start` of `ep_write` are to each other;
  what was told and what is sent agree as long as `used` has one root. The
  second is an action property.

`KeyboardProofs`, for any keyboard, queue and sizes of a read and a report:
`TypeCorrect`; `ModifiersRight` by `QueueLeads`, which says that the modifiers
and the events still queued lead to the keys that are down; `HostRight` by
`HostInv`: a key that an event in the queue says is down is down, or is let go
of by a later one (`DownIsPressed`), and the queue ends with the event of a key
and the end of its packet (`EndsWithKey`), so that the last batch sets the
modifiers of its report. A batch is folded by `HandleEvent`, and its result is
found by induction along the trace of the fold.

`LzProofs`, for every ring length, bits per command and input: `TypeCorrect`,
`RingCorrect` (the ring is the end of the history), `ReadsWithinChunk`,
`OutputWithinBuffer`, `ImplementsStream`.

`EepromProofs`, for any set of well-formed images and any mask: `TypeCorrect`;
`InStep`: the three formulas for the next chunk agree (`CppNextFinds`,
`JsNextFinds`, `HsNextFinds` each find the first multiple of 8 that is not
before the end of the chunk), extractor.js as long as no length of the image
reaches its mask; `HandlesAll`: when a reader ends it has handled what `Handled`
says: `unpack_eeprom` every chunk, SpiFs every chunk but a last one that is not
padded, extractor.js those ahead of the first boot code at which
`parse_bootcode` throws (too short for its footer, or any if there is a
`keys.js`).

`HostToolsProofs`:

* `InTurn`, for any number of rounds: `FlipInv` says that a flip that is waited
  for is pending, or its event is there, or it was refused.
* `Windows`, for any areas and page size: no state, but the arithmetic of pages
  and lines.
* `Digest`, for a message of any length, any size of a block above 8: `ShaInv`
  says that what was transformed and the part of the block that is filled are
  the message so far, and that `bitlen` counts the transformed part. The hash
  of a message is compared byte by byte with the padded message, in the two
  cases of `sha256_final`.
* `ReadsBack`, for every timing that the fields have room for and whatever else
  is in the block, that a display reads it back, but of the vertical porch and
  sync only what is below 16, the rest as back porch: `OutputInv` (what a tool
  has put out is what its operation gives), the digits of a number cut in a low
  byte and a shared one, and the sum of 128 bytes, one of which makes it zero.
* `Served`, for every text of characters below 2^16 and every table of them:
  the bytes of a text are those of its leading ASCII characters, one each, and
  then a byte that begins a longer character with one that goes on (`BytesOf`).
  After k rounds the conversion has the first k characters, or has stalled at
  the first that is not ASCII (`Reached`); the test of the second byte refuses
  what UTF-8 has there, finding 4. What is proved: the first `MaxChars`
  characters are served, or there is a stall, and then one of those is not
  ASCII.
* `Named`, for display lists of any number of planes, from any index, on both
  models, for any window: after k rounds the walk is where the part k + 1 of
  the list begins and has said all parts before it, or it is out of the window
  with nothing left to say (`Reading`). That needs where each part of a flat
  sequence of sequences lies (`FlattenPlaced`), that the word count of a
  control word is the length of its plane, and that a part is never shorter
  than a word, so that as many rounds as the window has words are enough.
* `RomLoads`, for ROMs of any pieces, any number of entries and of slots: after
  q rounds a table's loop stands at the words of its entry q + 1, and each slot
  fits its entry (`Found`); at the end it stands at a 0 and stays. Slots of
  several tables match the entries of the ROM piece by piece (`Matches`, which
  also says that too many entries are too many slots), since the scan finds
  nothing where there is no magic (`NothingFound`).

The three walks are folds, and each invariant above is proved by induction along
the trace of the fold (`FoldLeftTrace`), for each number of rounds.

`FoldTheorems`: the library's theorems on induction take an operator, which the
provers cannot instantiate. `SetInduction` states it with a set, from the
well-foundedness of `<` alone. With it `FoldLeft` of any operator is shown to be
the last value of a trace (`FoldLeftTrace`), and `FoldFunction` the value at the
whole domain of a function on its parts (`FoldFunctionIs`); the operator is a
constant of the module, for which an INSTANCE puts what a model folds with.

The assumptions on constants (each ASSUME has a name) are evaluated by the
runs of the modules that extend the one they are in. Most say what the
constants are. Those that leave inputs out, which the code does not test for:

* `TimingsAssumption`: every number of a timing is below what its field holds
  (six bits for the vertical porch and sync), and the vertical back porch a byte,
  as the parameter is; `add_detailed` cuts off what is above.
  `FixedAssumption`: the other bytes of the block are bytes, the last 0.
* `StringsAssumption`, `TextsAssumption`: the strings of a table, and a text, are
  of characters of one to three bytes, without a zero, of any length; ids are
  not 0.
* `RomsAssumption`: a ROM is what a linker lays out, `Pieced`. The magic is
  nowhere but ahead of a table (the scan takes any word that looks like it for
  one), no address or size in a table is 0, and an entry has as many words of
  data as its size asks for.
* `PlanesAssumption`: a list is of whole planes with the word count that the
  hardware asks for, whatever their other words look like.

Every safety invariant that a run checks is a theorem. Only model-checked are
the liveness properties (`StopTakesEffect`, `ConfiguredServes`, `SetupAnswered`,
`HandshakeCompletes`, `PushEnds`, `PluggedServed`, `BootsUnattended`,
`Returns`, `TearingEnds`): fairness and ENABLED are out of the prover's reach.

## 5. Findings

1. `main.cpp:298` says "Wait for termination"; the wait is skipped when `stop`
   is already set (line 296), as after a SET_CONFIGURATION 0.
   (`gadget_no_wait`)
2. `aap.cpp:106` says "past this point, SSL is online"; `state` never goes back
   from connected, and the SSL object is never reset, so that the second head
   unit's client hello is put into the BIO and never answered.
   (`aap_stale_session`)
3. `webusbboot/README.md:7` says that a click pushes the currently selected
   file; `checkChunk` slices the global `payload` anew each time, and a fetch
   that completes meanwhile gives the device the beginning of one file and goes
   on with another. (`push_mixed`)
4. `usbstring.c:32` "insists on correct encodings", and 38-39 describe a second
   byte 10xxxxxx; the test at 44, 55 and 61 refuses every such byte and takes
   11xxxxxx, so that no text with a character above 127 is converted. The
   gadget's own strings are ASCII. (`usb_strings`)

Seen while modelling, and part of the models, but without a run of their own:
frames that are not full packets, among them encrypted ones, are dropped
(`aap.cpp:84`, the comments at 106-108 describe the protocol, not the code); a
descriptor 0 counts as unopened (`main.cpp:300`); an io thread may be created
with `fd_out` = -1 after an `init_ep` that failed (`FD_SET(-1)` is undefined);
a single queued event fails the assert of `keyboard-proxy/main.c:138`; with
autopush, a device that is there before the file is not started and not tried
again (`pi-usbboot.js:316`); a device that is entered after it has gone, or
twice, leaves an element in the page (105); a second lookup of a Pi that is being
served closes its device (94), and without autopush, or in the middle of a file,
it waits for its answer until somebody clicks; a key that goes down and up in one
batch stays down at the host until the next event
(`keyboard-proxy/main.c:178`); `parse_bootcode` throws at a short boot code,
and at any when there is a `keys.js` (`bootcode.js:69` uses a constant of
another block), which ends `extractor.js` in the middle of an image; bits 4 and
5 of the vertical porch and sync of a timing are lost (`edid-generate.cpp:42`);
after a flip that the kernel refuses, `tearing-test` waits for ever (17, 65).

## 6. Plan

Done, in this order: `Gadget` with `EndpointPair`, `Aap`, `PushBootcode`,
`FileServer`, `KeyboardProxy`, `Lz` with `LzStream`, `EepromReaders`, the
proofs about the first and the last two, `WebUsb`, `HostTools` with the
modules it drives, and the proofs about `Aap`, `KeyboardProxy`, `WebUsb` and
`HostTools`.

To extend the models:

1. `AndroidAuto`: `Gadget` and `Aap` composed, so that an io thread that is
   replaced in the middle of a frame is seen by the protocol; frames longer
   than the 512 bytes of one read (`main.cpp:416`), as a byte stream. The run
   replaces `aap`.
2. Images that are cut short, where `offset + 8 + chunk_size` may wrap
   (`eeprom-v2/main.cpp:157`), and `handle_chunk` on lengths below its header.
3. The mailbox and the symbol search of `utils/`.

To prove: of what the first of these extensions changes, the phases of the
handshake again.

## 7. Not modelled

* `hu.proto`: a schema, of which one message is used, and only printed.
* `signing-tool/`: slices around an HMAC and an RSA check of libraries, no state;
  of `parse_bootcode` only where it throws.
* `sha256_transform`: arithmetic on words from a published standard.
* `extractor.hs`: names a record field that `SpiFs.hs` does not have (line 58).
* kms-test and what `drm-utils.cpp` prints; the other register inspectors of
  `utils/`, `smi-test.c`, `rom_sim.c`, `boottime.c`,
  `pi5_voltage.py`: read, print or toggle hardware registers straight through.
* `nix/`, `initrd/`, `big-endian/`, `flake.nix`: system configuration.
* Within the modelled programs: the contents of the USB descriptors, of TLS
  and of files; evdev queues that overflow and key codes beyond the table;
  options and the layout file of `eeprom-v2`; a second click while a push runs
  on the device (an open of an open device is the browser's affair), devices of
  a mode other than the two, several Pis at once; strings with zeros or with
  UTF-8 that ends in the middle of a character; dumps that are not of whole
  lines, which `hexdump.cc` excludes.
