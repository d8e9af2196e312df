--------------------------------- MODULE Input ---------------------------------
(***************************************************************************)
(* vhost-device-input: the events of an input device of the host for a     *)
(* guest (vhu_input.rs).  Events come in packets, each ended by a          *)
(* SYN_REPORT; the backend keeps what it has fetched until a packet is     *)
(* complete and then needs one buffer of the guest for each event.         *)
(*                                                                         *)
(* An event is its place in what the device reports.  What the VMM reads   *)
(* of the configuration is a member of InputConfigs.                       *)
(***************************************************************************)
EXTENDS Integers, Sequences, SequencesExt

CONSTANTS
  InputEvents,    \* bound: the number of events that the device reports
  InputSyn,       \* the events that are a SYN_REPORT
  InputQueueSize  \* buffers that the guest has

ASSUME InputAssumption ==
  InputEvents \in Nat /\ InputSyn \subseteq 1 .. InputEvents /\ InputQueueSize \in Nat

VARIABLES
  input_idx,     \* event_idx: what was negotiated, "none" yet
  input_next,    \* the next event the device reports
  input_list,    \* ev_list
  input_avail,   \* buffers in the event queue
  input_sent,    \* history: the events given to the guest
  input_overrun, \* history: events were dropped for want of a buffer
  input_select   \* select and subsel of the configuration space

InputVars ==
  <<input_idx, input_next, input_list, input_avail, input_sent, input_overrun, input_select>>

InputSelects == {"ID_NAME", "ID_DEVIDS", "EV_BITS", "unset"}
InputSubsels == {"EV_KEY", "unset"}

InputTypeOK ==
  /\ input_idx \in {"none", "on", "off"}
  /\ input_next \in 1 .. InputEvents + 1
  /\ input_list \in Seq(1 .. InputEvents) /\ input_sent \in Seq(1 .. InputEvents)
  /\ input_avail \in 0 .. InputQueueSize
  /\ input_overrun \in BOOLEAN
  /\ input_select \in InputSelects \X InputSubsels

InputInit ==
  /\ input_idx = "none" /\ input_next = 1 /\ input_list = <<>>
  /\ input_avail = 0 /\ input_sent = <<>> /\ input_overrun = FALSE
  /\ input_select = <<"unset", "unset">>

-----------------------------------------------------------------------------
\* FetchEventsSynced: the events the device has reported, or a part of them.
InputFetched(n) == [i \in 1 .. n |-> input_next + i - 1]

\* The last SYN_REPORT of the list; one that is its first is taken for none.
InputIsLastSync(list, last) ==
  /\ last = 0 \/ (last \in 2 .. Len(list) /\ list[last] \in InputSyn)
  /\ \A i \in 2 .. Len(list) : list[i] \in InputSyn => i <= last

\* process_event(): all up to it is sent, and dropped from the list...
InputSend(list, last) ==
  /\ last <= input_avail
  /\ input_sent' = input_sent \o SubSeq(list, 1, last)
  /\ input_avail' = input_avail - last
  /\ input_list' = SubSeq(list, last + 1, Len(list))
  /\ UNCHANGED input_overrun

\* Mistake: what was sent stays in the list.
BugInputOverrun(list, last) ==
  /\ last > input_avail
  /\ input_sent' = input_sent \o SubSeq(list, 1, input_avail)
  /\ input_avail' = 0
  /\ input_list' = list
  /\ input_overrun' = TRUE

\* ...or what there are buffers for, and then all the list is.
InputOverrun(list, last) ==
  /\ last > input_avail
  /\ input_sent' = input_sent \o SubSeq(list, 1, input_avail)
  /\ input_avail' = 0
  /\ input_list' = <<>>
  /\ input_overrun' = TRUE

\* handle_event(), process_queue().
InputHandle ==
  /\ input_idx = "on"
  /\ \E n \in 1 .. InputEvents + 1 - input_next :
       LET list == input_list \o InputFetched(n)
       IN  /\ input_next' = input_next + n
           /\ \E last \in 0 .. Len(list) :
                /\ InputIsLastSync(list, last)
                /\ InputSend(list, last) \/ InputOverrun(list, last)
  /\ UNCHANGED <<input_idx, input_select>>

\* Without EVENT_IDX, the events are fetched and that is all.
InputDiscard ==
  /\ input_idx # "on"
  /\ \E n \in 1 .. InputEvents + 1 - input_next : input_next' = input_next + n
  /\ UNCHANGED <<input_idx, input_list, input_avail, input_sent, input_overrun, input_select>>

-----------------------------------------------------------------------------
\* The VMM and the guest.

InputSetEventIdx(on) ==
  /\ input_idx = "none"
  /\ input_idx' = on
  /\ UNCHANGED <<input_next, input_list, input_avail, input_sent, input_overrun, input_select>>

\* set_config(): one write of both bytes, or of one of them.
InputSetConfig(select, subsel) ==
  /\ input_select' \in {<<select, subsel>>, <<select, input_select[2]>>, <<input_select[1], subsel>>}
  /\ UNCHANGED <<input_idx, input_next, input_list, input_avail, input_sent, input_overrun>>

InputGuest ==
  /\ input_avail < InputQueueSize
  /\ input_avail' = input_avail + 1
  /\ UNCHANGED <<input_idx, input_next, input_list, input_sent, input_overrun, input_select>>

InputNext ==
  \/ InputHandle \/ InputDiscard \/ InputGuest
  \/ \E on \in {"on", "off"} : InputSetEventIdx(on)
  \/ \E s \in InputSelects, b \in InputSubsels : InputSetConfig(s, b)

InputSpec == InputInit /\ [][InputNext]_InputVars

-----------------------------------------------------------------------------
(***************************************************************************)
(* The guest gets each event at most once and in order, and what was       *)
(* fetched and not sent comes after what was.                              *)
(***************************************************************************)
InputOrdered ==
  LET all == input_sent \o input_list
  IN  \A i \in 2 .. Len(all) : all[i - 1] < all[i]

(***************************************************************************)
(* "Host cannot process event data in time": only then does the guest miss *)
(* events, or see the beginning of a packet without its SYN_REPORT.        *)
(***************************************************************************)
InputWhole ==
  input_idx = "on" /\ ~input_overrun /\ input_sent # <<>> =>
    /\ Last(input_sent) \in InputSyn
    /\ \A i \in 2 .. Len(input_sent) : input_sent[i] = input_sent[i - 1] + 1

\* The events of the host's device reach the guest in order and in whole
\* packets (process_event()).
InputInv == InputTypeOK /\ InputOrdered /\ InputWhole

=============================================================================
