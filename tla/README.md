# qnicll: models, checks and proofs

qnicll is the low-level library of a quantum network interface card. A program
(`tst.c`, `n.c`, `c.c`) calls it from one thread. The library reaches the card
in two ways: through the demon `qregd`, over one TCP connection, for the
registers that were added to the FPGA, and through libiio for the samples that
the DAC sends and the ADC captures. This directory holds TLA+ models of the
parts of the library that keep state, the TLC runs that check them, and proofs
that TLAPS checks.

## The system

| component | source | state | operations |
|---|---|---|---|
| register client | `qregc.c` | the socket, the global `rxbuf`, the place in the incoming stream | connect, 15 setters, raw command, shutdown, disconnect |
| data path | `qnicll.c` | `dac_buf`, `adc_buf`, `adc_filled`, `adc_occ_samps`, `rx_sz_samps`, `tx_pushed` | init, done, make/get/push transmit buffer, enable/disable, get/return receive buffer, sizes |
| settings | `qnicll.c` | `mode`, `probe_datasrc`, `errmsg`, `errmsg_ll` | set mode, set probe source, setters that forward to `qregc.c`, error description |
| sample positions | `qnicll.c:460` | none | `qnicll_idx_t2p()` |
| QNA | `qna.c` | none at this commit: commands are only printed | set switches and attenuators |
| QNA over USB | `qna_usb.c` | the tty, `ibuf` | connect, command, disconnect; not called at this commit |
| utilities | `util.c` | a static buffer | read a small file, print |
| programs | `tst.c`, `n.c`, `c.c` | loop variables, files | capture to a file, measure noise, one raw command |
| external | | registers; kernel buffers; fifo | `qregd`, TCP, libiio, the ADC and the DAC |

How they meet:

- A program calls one `qnicll_*` function at a time. A setter is passed on to
  `qregc.c`, which writes a request and blocks in two `read()` calls for the
  answer. Errors go back through a callback into `errmsg_ll`.
- `qnicll_txrx_en(1)` makes the receive buffer, after a "late push" of the
  transmit buffer if nothing was pushed. From then on the ADC fills kernel
  buffers on its own. `qnicll_get_filled_rx_buf()` and `qnicll_return_rx_buf()`
  share one function that blocks in libiio until a block is full.
- `qnicll_init()` and `qnicll_done()` begin and end both connections.

What is hard here:

- *Framing.* One `read()` may return less than a packet, and a text may be
  longer than `rxbuf`. The client then loses its place and takes the answer to
  an earlier call for the answer to its own, and bytes of a text for a length,
  which may be negative.
- *State that outlives its occasion.* `rxbuf` holds an earlier reply when a read
  fails; `adc_filled` and `tx_pushed` say something of an earlier session.
- *Sequences of calls.* Enabling twice, enabling without a transmit buffer,
  returning the last buffer, ending and initialising again.
- *Failure in the middle.* Every libiio call and every write can fail, and some
  results are not looked at or lose their sign.
- *Blocking.* No read and no refill has a timeout.

`PROJECT.json` lists these hazards one by one, each at its line.

## Modules

| module | what it is |
|---|---|
| `Qregc` | `qregc.c` with `qregd` and TCP around it |
| `QregApi` | what `qregc.c` promises its callers: registers and calls, no packets |
| `Datapath` | the data path of `qnicll.c` with libiio, the ADC and an application |
| `SampleIdx` | `qnicll_idx_t2p()` |
| `TxFill` | the loops of `tst.c` that fill the transmit buffer; extends `SampleIdx` |
| `RxStream` | what `qnicll.h` promises of receiving: blocks captured and taken in order, no buffer objects and no blocking |
| `Programs` | `tst.c`, `n.c` and `c.c` as callers of the data path; extends `Datapath` |
| `QnaUsb` | `qna_usb.c` with the serial line and the QNA firmware |
| `Settings` | the settings of `qnicll.c`, the stub `qna.c`, and the descriptions of errors |
| `QregcProofs`, `QregcApiProofs` | theorems about `Qregc`, and that it implements `QregApi` |
| `DatapathProofs`, `ProgramsProofs` | theorems about `Datapath` and `RxStream`, and about `Programs` |
| `QnaUsbProofs`, `TxFillProofs`, `SettingsProofs` | theorems about `QnaUsb`, about `TxFill` and `SampleIdx`, and about `Settings` |
| `MCQregc`, `MCDatapath`, `MCPrograms`, `MCQnaUsb`, `MCTxFill`, `MCSettings` | values of the constants for TLC |

A definition whose name begins with `Slip_` is a copy of the definition that
follows it with one plausible slip: a forgotten reset, an unchecked result. No
specification uses them. Each property is tried on a model in which a slip
replaces the right definition, and must fail there.

### `Qregc`

The stream of bytes from `qregd` is exact: `stream` holds what was sent and not
read, a packet is four bytes of length and a text, and a read takes some bytes
from the front. So is the memory of `rxbuf`, of which a read overwrites the beginning
(`Overwrite`) and in which a zero byte ends the text (`EndAt`). A length is a signed
`int` (`Ntohl`), as in the code: a negative one gets past `MIN`, the read of so many
bytes fails with -1, and -1 is not below the length, so that `rd()` goes on to parse all
that is left in `rxbuf` (`ReadBodyNegative`). When a read gets less than it asked for,
`rd()` takes the error code 2 for a length, ends the text in `rxbuf` there and parses it.

The parsing by `sscanf` is by what it does: `Converted(s, k, double)` are the
positions of the numeral that `%d`, or `%lg` if `double`, takes after the first `k`
bytes of `s`. White space is skipped, a sign, and for `%lg` a point, is part of a
numeral, and the longest one is taken: of `12.34`, `%d` takes `12`. A value is the
bytes of its numeral. Not modelled are the exponents, hexadecimal digits, `inf` and
`nan` that `%lg` takes too, and what `%d` makes of a number that is too large.

A request is abstract, an operation and a register. The demon may round what is
requested to any value, so the requested value carries no information, and
`QregdSet` picks any value.

| action | code |
|---|---|
| `qregc_connect` | `qregc_connect()`, success or failure of `connect()` |
| `qregc_set(r)` | a setter that ignores the result of `wr_str()`, up to its first read |
| `qregc_set_checked(r)` | `qregc_set_probe_len_bits()`, `qregc_set_probe_qty()` |
| `qregc_do_cmd`, `qregc_shutdown`, `qregc_disconnect` | the functions of that name |
| `ReadHdr`, `ReadHdrFail` | the read of the length in `rd_pkt()`; the failure ends the call |
| `ReadBody`, `ReadBodyFail`, `ReadBodyNegative` | the read of the text, and all of `rd()` and its caller |
| `QregdServe`, `ConnectionLost` | external |

A call is two or three steps, because what happens between the write, the read
of the length and the read of the text is what the module is about. The
application may make any call at any time when none is in progress, with two
limits: it connects when there is no connection, and makes calls that write when
there is one. `qregd` serves one connection at a time.
`qregc_connect()` makes a new socket, which has nothing in its stream.

### `Datapath`

`st` holds the static state of `qnicll.c` (of a pointer to a buffer object only
whether it is NULL), `adc` and `dac` what libiio and the hardware hold: `dac.fifo`
is whether pushed data wait in the FPGA, `dac.sent` whether any went on to the DAC
when the NIC last became active or since (`qnicll.h:318-321`); becoming active empties
the fifo. A block of samples is a session and a number. One action stands for one call, except
that a refill blocks: `EnterRefill` begins it and `Refilled` or `RefillFails`
ends it. `AdcFillsBlock` interleaves with everything.

`DfltBufs` are the numbers of kernel buffers there may be when the application does not
ask for one (`qnicll.h:446`: "a reasonable default number").

What is assumed of libiio, from how `qnicll.c` uses it: a device has one buffer
object at a time, and asking for a second, or for one with no samples, gives
NULL; a refill gives the block in user space back to the kernel before it waits
for a full one; `iio_buffer_start()` of a new buffer object points to no block
(`qnicll.c:222` says so); a NULL buffer object crashes.

The application is any sequence of calls between init and done, limited by the
rules in the constant `Usage`:

| rule | meaning | why |
|---|---|---|
| `pairs` | enable when disabled, receive when enabled | `tst.c` and `n.c` do; a second enabling overwrites the pointer to a live buffer object (`qnicll.c:418`) |
| `drained` | take a block that `qnicll_return_rx_buf()` fetched before disabling | without it, see `dp_stale` |
| `counted` | take no more blocks than the hardware captures | the loop of `tst.c:297` |
| `break` | do not return the last block | `n.c:145`; what `tst.c` does without it is `LastReturnWaits` |
| `tx_first`, `tx_once` | make one transmit buffer before enabling | `tst.c` does; `n.c` does not, see below |
| `fresh` | push again before enabling again | `tst.c` enables once; without it nothing is sent (`qnicll.c:402`) |

That `tst.c` and `c.c` keep `pairs`, `tx_first`, `tx_once` and `fresh`, whichever call
fails, is the property `KeepsRules` of `Programs`. `dp_twice` shows what `pairs` is for.

The ADC of the model waits for a free kernel buffer. Samples that real hardware drops
when there is none are not represented, and "no block is lost" speaks of the blocks
that were captured.

An `int` that was never assigned (`qnicll_txrx_en()`, and the result of
`qnicll_done()`) is 0 or `Garbage`. What warnings print, and how many samples the
late push writes, is left out.

`RxStream` has none of this: receiving is on or off, a number of blocks was
captured and a number taken. The refinement mapping (`Stream` in `Datapath`) reads
them off the state: a block counts as taken when the application gets it, not when
the refill inside `qnicll_return_rx_buf()` has fetched it.

### `Programs`

A program is a path through labels (`at`), one for each call it makes, in the order
of its `main()`; a step makes the call, an action of `Datapath`, and goes on to the
next label, or to `exit1` when the macro `C` finds a code that is not 0. While a
refill blocks, the program stays at its call, and `Resume` or `GivesUp` ends both.
`Datapath` is taken with `Usage = {}`: nothing but the program limits its calls.

| step | `tst.c` | `n.c` | `c.c` |
|---|---|---|---|
| `Connect` | 144 | 75 | 55 |
| `Command` | | | 57-62 |
| `Set` | 147-172, 205-207 | 78-82 | |
| `MakeTxBuf`, `PushTxBuf` | 179, 199; 194 | | |
| `SetPd`, `SetQty` | 216; 225-229 | 87; 89-93 | |
| `SetNum` | | 95 | |
| `SetRxBufSize` | 231-234 | 97-104 | |
| `OpenFile` | 284 | | |
| `EnableTxRx` | 295 | 113 | |
| `GetBlock`, `Got` | 299 | 116, 145 | |
| `WriteFile` | 305-314 | | |
| `ReturnBlock`, `Returned` | 315 | 147 | |
| `DisableTxRx`, `Finish` | 322; 366 | 150; 152 | `Finish` 65 |

The registers are `hw`; a failed `qnicll_set_probe_qty()`, whose result no program
looks at, leaves the quantity as it was asked for and the register as it was or
changed. The hardware captures period times quantity samples (`Captured`), the
program waits for what it calculated, and a block is written to the file in
`Pieces`, of which one `write()` takes some.

### `QnaUsb`

The line is in canonical mode with `>` as an end of line, so that one `read()` gets
one piece of a reply: a line, or what ends with the prompt. A piece is the text it
answers, its place among the pieces of that reply, where it starts in the reply and
its size; a reply is the positions at which its pieces end. `fill` is the place in
the buffer that the next read writes to (`p - rsp`). A write that is
short, or fails, may leave the text typed and not executed; QNA executes what was
typed up to a carriage return. When `set_attrib()` fails, `qna_usb_connect()` leaves the
line open; the application is taken to send nothing over it until it has disconnected. `qna_usb_connect()` reads one piece;
`qna_usb_do_cmd()` reads until a piece with a prompt.

### `TxFill` and `SampleIdx`

The two nested loops of `tst.c:188` write a pattern into the buffer that was
granted, through `qnicll_idx_t2p()`. `tst.c:187` says that they "should work
regardless of fmt", so the format is any of the three that the function knows.
The granted size is a multiple of 4, as `qnicll_set_tx_buf_sz_samps()` rounds
it, and holds whole groups of the format; `tst.c` asks for 256.

### `Settings`

One step is one call of `qnicll.h`. The functions come in kinds, given as
constants: `Direct` ones return the code of a `qregc.c` function as it is,
`Described` ones go through the macro `DO`, `Diagnosed` ones find the error
themselves (`RBUG`). A text is the function it names and a reason. What
`qregc.c` may answer is `QregcOutcomes`: until a call failed or a raw command was
given (`astray`), a success comes with the register's value, as `TrustedValues`
of `QregcProofs` says; after that nothing is known of the answers, and requests
that were given up may still be served (`LateService`). The Makefile builds
without optimisation. So a function that runs off its end after `DO` returns the
0 that `DO` has tested, and `do_cmd()` of `qna.c` the number of characters it
printed.

## Runs

`MCQregc` has a register of each kind of setter, one of them read by `%lg`, numerals of
one, two and three characters, an `rxbuf` for five or six bytes, and replies to raw commands
that look like a value or an error report: with two registers
an answer can be taken for another's, and after four calls a client that lost its place
has read pieces of two other answers. In `wire_short` a raw command is answered with a
text that does not fit in `rxbuf`: behind the place where it is cut it holds what looks
like a packet, and then a byte with the top bit set, so that the next length is negative.
In `wire_negative` there is no such byte in a text, but a text of 128 bytes, of whose length
the last byte has its top bit set. In `Datapath`, three blocks and three sessions with one
or two kernel
buffers are enough for a full queue, a block held over to the next session and
the one after it; what `dp_any` and the violations show needs two of each.

| run | expects | shows |
|---|---|---|
| `wire_short` | pass | Reads stop anywhere and connections fail. A caller that stops at the first error (`C` in the programs) always gets the register's value, because nothing but its own answer is on its way; a setter reports success after a failed read only if it read a negative length, and never to such a caller; every call returns. |
| `wire_negative` | violation of `NoSuccessOnReadFailure` | Reads are whole here. With a negative length a failed read passes the test of `qregc.c:53`, and the setter returns 0 with an earlier value. |
| `wire_whole` | pass | When reads are whole and replies fit in `rxbuf`, every reported value is the register's, even for a caller that goes on after errors, and `Qregc` implements `QregApi`. |
| `wire_desync` | violation of `ReturnedIsActual` | After one short read the answers are those of earlier calls (`qregc.c:53`, against `qnicll.h:390`). |
| `dp_good` | pass | An application that keeps to all the rules, with failures where the code looks for them: blocks come in order with their own size, none that was captured is lost, no buffer object is lost, enabling means receiving and sending what was pushed, disabling ends the reception, nothing crashes, every refill ends; and `Datapath` implements `RxStream`. |
| `dp_any` | pass | Any calls in any order and every failure: no block comes twice or after a later one. |
| `dp_stale` | violation of `GotIsNext` | A block fetched by `qnicll_return_rx_buf()` before disabling is taken for the first of the next session (`qnicll.c:226`). |
| `dp_twice` | violation of `DisabledIsOff` | Enabling twice overwrites the pointer to a live buffer object, and disabling then does nothing (`qnicll.c:418`, against `qnicll.h:461`). |
| `programs` | pass | The three programs with every failure libiio reports and writes of any length, periods that are and are not multiples of 4, and either one kernel buffer, which must be given back before the ADC can go on, or a second one that it fills while `tst.c` writes the first: `out/d.raw` is the capture from its first block, each piece once; what is captured reaches the file, or `tst.c` says that it failed; a program that exits with 0 closed its buffers and wrote all it meant to, and `tst.c` does so only if the ADC sampled one block more than it wrote, for its last return waits for that; `tst.c` and `c.c` keep to the rules. |
| `usb` | pass | Commands over the serial line with failures, hang-ups and reconnections: each answer is its own command's, or, when the greeting had two pieces, that of the one before; no reply grows past the buffer; every call ends while the line is up. |
| `tx_fill` | pass | The loops of `tst.c`, all patterns of three bits, all formats, buffers of 0 to 16 samples: no write out of bounds, the pattern arrives whole. |
| `settings` | pass | One function of each kind, in any order: the recorded source of the probe is what the hardware has, unless answers went astray or the last change was refused; the first error has its own description or none. |

`CHECK_DEADLOCK FALSE` is given because the bounds on calls, sessions and
initialisations, and the end of a program, stop the models; `Settings` has no bounds and is checked for deadlock.

Bounds: `MaxCalls` (calls of `qregc.c`), `MaxBlocks`, `MaxSes`, `MaxInits`. They
guard the actions of the application and the ADC only. `MaxBlocks` is also part
of the system: the hardware captures a number of blocks that was set before
(`probe_qty`); in `Programs` the registers say how many (`Captured`). `Pieces` bounds how a block can be
cut by `write()`. In `programs` periods of 2, 4 and 6 samples give a buffer of none,
one that is right and one that is rounded down, and there are up to four blocks. In
`usb`, four calls are a connection, two commands that can lag, and one more.

Fairness: in `Qregc`, a blocked read returns once it can, and `qregd` goes on
serving; in `Datapath`, a blocked refill returns once there is a block, and the
ADC goes on sampling while a kernel buffer is free; in `Programs`, a program that
is not blocked makes its next call; in `QnaUsb`, a read returns once there is a
piece, and QNA answers what it was sent. The kernel and the hardware do that. Nothing makes the application of `Datapath` call, and nothing makes a connection
fail.

Differences met that have no run of their own:

- What `rxbuf` cuts off a long reply stays in the stream and is taken for the next answer,
  with reads that are whole too (`qregc.c:50`, against `qnicll.h:390`).
- `tx_pushed` is reset by initialisation only. Enabling again without pushing again pushes
  nothing, and a transmit buffer made anew after a push is not pushed either
  (`qnicll.c:402`, against `qnicll.h:456` and `qnicll.h:320`).
- The negative error of `iio_buffer_push()` is kept in a `size_t` and passes for a large
  size, and enabling returns 0 with nothing to transmit (`qnicll.c:272`, against
  `qnicll.c:275`).
- A late push that writes nothing makes `qnicll_txrx_en(1)` return an `e` that was never
  assigned, which may be 0, without a receive buffer (`qnicll.c:409`, against
  `qnicll.h:463`).
- With nothing failing, `tst.c:315` waits for a block more than it asked the hardware for,
  in a function that is not said to block (`qnicll.c:231`, against `qnicll.h:480`).
  `LastReturnWaits` says when it ends.
- With nothing failing, `n.c:113` enables without a transmit buffer, and the late push hands
  NULL to libiio (`qnicll.c:405`) before `qnicll.c:271` looks for that. In `Programs`,
  `n.c` ends in `"crashed"` or with an error, and no property but the types is about it.
- A failing `qnicll_set_probe_qty()` passes the comparison of `tst.c:226`, which is there to
  find a quantity other than the one asked for (`tst.c:225`, against `tst.c:227`).
- After a call that failed, one that returns the code of `qregc.c` as it is leaves the old
  description (`qnicll.c:299`, against `qnicll.h:117`).

And, smaller: a line that is hung up makes
`qna_usb_do_cmd()` turn for ever (`qna_usb.c:123`), and `qna_usb_connect()` leaves the line
open when its attributes cannot be set (`qna_usb.c:104`); `qnicll_txrx_en(0)` returns an
unassigned `e` (`qnicll.c:428`); the check after a push compares quads with
samples and always warns (`qnicll.c:276`); `SIZE_MAX` is granted 0 samples
(`qnicll.c:437`, against `qnicll.h:417`); a raw command can report success
after a failed read (`qregc.c:106`); a setter can report a piece of a number, when a
client that lost its place reads on in the middle of one, and `rd_int()` takes `12` from
an answer `12.34` that was another register's; `qna.c:50` returns what `printf` left
in a register, so that `qnicll_set_rxq_polctl_setting_idx()` always fails, with a
code that is none of `QNICLL_ERR_*`.

## Proofs

From `QregcAssumption` alone (any registers and numerals whose answers fit in `rxbuf`,
any replies to raw commands, an `rxbuf` of three bytes or more, reads that are short
or not, any number of calls), `QregcProofs` proves:

- `TypeCorrect`. The memory of `rxbuf` keeps its length and its last zero byte
  (`OverwriteIs`, `EndAtIs`), so that every parse ends in it, whatever length was read; a
  length is an `int`, of either sign (`NtohlType`).
- `PlaceIsKept`, the inductive invariant `KeepsPlace`. That a trusted caller gets
  the register's value is not inductive: one has to say what is on its way. While
  the caller is idle, nothing is, and no request for an answer is outstanding.
  While it waits for a length, either its own request is the last one and the
  stream is empty, or the stream is a front of the packet that answers it. While
  it waits for a text, the stream is a front of that text, and exactly its length
  is asked for. And of a connection that is gone nothing is left. There is one
  lemma for calls, reads, serving and loss each; `OkResult` shows that `"0 <v>"`
  in `rxbuf` parses to `v`, `FrontOfFrame` that a packet yields its length and its text.
- `TrustedValues` follows from it.
- `ReadFailureIsReported`, the property `ReadFailureIsSeen`. After a read that got too
  little, the text in `rxbuf` is cut after two bytes (`CutText`), two numbers do not fit in
  two bytes, so the setter misses its value (`StaleResult`). What is left is the negative
  length, which a caller that stops at the first error never reads, by `KeepsPlace`.

`QregcApiProofs` is about a caller that need not be careful. Its hypothesis is
`WholeReads`: each `read()` gets what it asks for or what there is of it, and every
reply to a raw command fits in `rxbuf`. `wire_desync` shows that the results fail
without the first half. Then `WholeReadsReturnActual`, that every value a setter
reports is the register's, after errors, raw commands and lost connections too; and
`ImplementsRegisterApi`, that each step of `Qregc` is a step of `QregApi` or a
stutter. `KeepsPlace` does not do here, for it says nothing once a call has failed.
The invariant, `InStep`, is that a failed call loses nothing but itself: while the client is idle,
nothing is on its way and no request left with `qregd` will be answered; while it
waits, either its own request is the last one, or the stream is a front of the packet
that answers it, whose length is not negative (`NoNegativeRead`). `Gone` says what is left of a connection that ended. In the
refinement, a call and its answer are steps of `QregApi` (`Invoke`, `InvokeOnly`,
`Settle`, `Return`), and the read of the length is a stutter.

`QnaUsbProofs` proves, from `QnaUsbAssumption` (replies of any number of pieces, none
empty, none longer than the buffer, the last with the prompt):

- `TypeCorrect` and `RepliesFit`. The loop of `qna_usb_do_cmd()` does not compare
  `p` with the end of the buffer, so that it stays inside is a fact of what is on the
  line. The invariant, `Contained`, is that the pieces on the line are in order
  (`InOrder`: each is followed by the next of its reply, or, if it has the prompt, by
  the first of another), and that what `fill` counts ends where the piece to be
  read next starts, or before (`HasRoom`).
- `AnswersInTurn`. The invariant, `Ordered`, says of a line that is trusted that the
  replies on it follow the one that was read last (`LastAnswered`, `Due`), without a gap up to
  the command that was sent last. That the lag is not more than one comes from the
  greeting: `qna_usb_connect()` reads one piece, and one more prompt may be left.

`TxFillProofs` proves, for every pattern, size and format, that
`qnicll_idx_t2p()` is injective and stays in the buffer (`IdxInjective`,
`IdxInBuffer`), that no loop counts past its bound (`TxFillTyped`), that the loops
stay in the buffer (`TxFillInBounds`) and that the pattern arrives whole (`TxFillPatternSent`). The invariant ties `t` to
`b * osamp + k` and says that everything before `t` is written.

`SettingsProofs` proves, for any functions of the three kinds and any texts other
than the empty one, `SettingsTyped`, `FirstErrorIsDescribed` and `SourceIsKnown`.
The invariant adds to the properties that there is no description before the
first failure. The three lemmas `ReturnsDescribed`, `DoDescribes` and
`SourceKept` say once what a call may leave of texts and of the source; the
argument is in `SourceSetKeeps`: a granted request is what the register has.

`DatapathProofs` proves, from `DatapathAssumption`:

- `DatapathTyped`, for any application and any failures.
- Under `Sound` (the rules `pairs`, `tx_first` and `tx_once`, and no failing write to
  the transmit buffer), `BuffersAreKnown`: each pointer of `qnicll.c` says what libiio
  has, `tx_pushed` means that the fifo holds data unless an enabling has sent them, and what the
  application knows of enabling is so. No property about buffer objects is inductive
  without the others: that none is lost when enabling needs that there was none, which
  needs that disabling closed it. `MakeKnown` is the step that matters, the two ways
  in which `qnicll_txrx_en(1)` ends. `BuffersAreOwned`, `NeverNullBuffer` and
  `EnabledReceives` follow, and with the rule `fresh`, `EnabledTransmits`.
- `DisabledIsQuiet` needs the rule `pairs` only, and no failure is excluded. Its invariant
  is `Paired`: `adc_buf` says whether the ADC's buffer object is open, and of an
  application that has not enabled it is closed. `dp_twice` shows that the rule is needed.
- With the rule `drained` as well (`Drains`), `EveryBlockIsInPlace`: blocks captured
  are those taken, the one fetched by a return, and those queued, in that order
  (`FirstIsNext`, `TailInPlace`). `EveryBlockInOrder` and `ReceivesTheStream`, that
  each step of `Datapath` is a step of `RxStream` or a stutter, follow from it. The
  rules `counted` and `break` are needed for `ReceiveReturns` only.
- `BlocksNeverOlder`, for any application and any failures again. `BlocksInPlace` is
  no help, for it breaks when an application disables with a fetched block in hand.
  What remains is the invariant `InQueue`: the queue holds consecutive blocks of the
  present session, the first of which is newer than anything that left it
  (`Fetched`), and the block in user space, while `adc_filled` is set, is newer than
  the one the application got last. `CurrentGot` and `QueueRefilled` are the two
  ways in which a block is delivered.

`ProgramsProofs` proves, from `ProgramsAssumption` (periods, quantities and pieces
that are not zero; a period times a quantity is a size that `Datapath` knows) and
`DatapathAssumption`:

- `ProgramsKeepRules`: the rules `pairs`, `tx_first`, `tx_once` and `fresh`, which the theorems
  about `Datapath` assume of an application, are kept by `tst.c` and `c.c`. The
  invariant `Order` says which calls were made before the one that comes next. This
  needs nothing of libiio.
- Under `Reported` (no write to the transmit buffer fails; otherwise
  `qnicll_txrx_en(1)` may return 0 and nothing is received), `CaptureInFile`, `ExitsComplete` and
  `ProgramsTyped`. That the file is the capture takes three invariants, and each needs
  the one before. `Held`: the buffer object of the ADC is open from `qnicll_txrx_en(1)` to
  `qnicll_txrx_en(0)`. `Placed`: there is one session, the blocks in it are where
  `BlocksInPlace` says, which is carried over step by step from the lemmas of
  `DatapathProofs`, and the program has taken one block for each turn of its loop.
  `Progress`: the length of the file is a whole number of blocks and what was written of
  the present one. `BlockToWrite` then says what `rx_buf` points to at `write()`, and
  `PieceNumber` which piece of the file that is. `tst.c` breaks the rule `drained`, so
  `EveryBlockInOrder` does not speak of it: what saves it is that it has one session.

Only model-checked are `LastReturnWaits` and everything under fairness (`EveryCallReturns`,
`ReceiveReturns`, `CaptureIsWritten`, `CallEnds`), which the prover cannot do.

## Plan

Done: all modules above. What is left: what a second connection gets after a
`qnicll_init()` that failed half way, once it is known how `qregd` serves two.

## Not modelled

`util.c` is sequential and keeps nothing that another part uses. The functions of
`qna.c` that nothing calls do at this commit what the ones in `Settings` do: they
print. Printing, the text of messages, the dialogue of `tst.c`, `out/r.txt` and the
noise that `n.c` adds up are left out: no state depends on them. How `qregd`, which
is not in the repository, treats a second connection is left open, so the connection
that a half-failed `qnicll_init()` leaves behind (`qnicll.c:329`) is a hazard without
a property. `n`, `c` and `tst` are also committed as binaries.
