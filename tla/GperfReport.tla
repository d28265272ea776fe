---------------------------- MODULE GperfReport ----------------------------
(***************************************************************************)
(* hala-pprof, profiler/report.rs: GperfHeapProfilerReport and             *)
(* GperfCpuProfilerReport collect blocks or samples with their frames in   *)
(* the tables of a pprof profile, which refer to each other by id and by   *)
(* offset, and build hands the tables out.  The two differ in the label    *)
(* and the units only.                                                     *)
(***************************************************************************)
EXTENDS Integers, Sequences

CONSTANTS Kind,      \* the report: "heap" or "cpu"
          Symbols,   \* the symbols that frames_to_symbols makes
          AddressOf, \* Symbol::address; null for all that have none
          NameOf,    \* Symbol::name
          FileOf,    \* Symbol::file_name
          Strings    \* the values of labels

VARIABLES string_table, \* StringTable: table and index
          func_table,   \* FnTable: funcs and index
          loc_table,    \* with the symbol each location was made for (history)
          report,       \* samples: location ids and label, and the frames (history)
          frames,       \* history: the frames of the block at hand handled so far
          ids,          \* locs: their location ids
          profile,      \* what the last build returned
          builds        \* how often build was called, up to two

tables == <<string_table, func_table, loc_table, report>>
reportVars == <<tables, frames, ids, profile, builds>>

Put(f, k, v) == [x \in DOMAIN f \cup {k} |-> IF x = k THEN v ELSE f[x]]

ReportInit ==
    /\ string_table = [table |-> <<"">>, index |-> [s \in {} |-> 0]]
    /\ func_table = [funcs |-> <<>>, index |-> [a \in {} |-> 0]]
    /\ loc_table = <<>>
    /\ report = <<>>
    /\ frames = <<>>
    /\ ids = <<>>
    /\ profile = <<>>
    /\ builds = 0

(* StringTable::insert *)
InsertString(st, s) ==
    IF s \in DOMAIN st.index THEN st
    ELSE [table |-> Append(st.table, s), index |-> Put(st.index, s, Len(st.table))]

(* FnTable::push, with the string table it leaves *)
FnId == Len(func_table.funcs) + 1

FnStrings(y) == InsertString(InsertString(string_table, NameOf[y]), FileOf[y])

FnPush(y) ==
    [funcs |-> Append(func_table.funcs, [id |-> FnId,
                                         system_name |-> FnStrings(y).index[NameOf[y]],
                                         filename |-> FnStrings(y).index[FileOf[y]]]),
     index |-> Put(func_table.index, AddressOf[y], FnId)]

(* One frame of report_block_info or report_cpu_sample: FnTable::get looks for the
   address of its symbol. *)
KnownFrame(y) ==
    /\ AddressOf[y] \in DOMAIN func_table.index
    /\ ids' = Append(ids, func_table.index[AddressOf[y]])
    /\ frames' = Append(frames, y)
    /\ UNCHANGED <<tables, profile, builds>>

NewFrame(y) ==
    /\ AddressOf[y] \notin DOMAIN func_table.index
    /\ string_table' = FnStrings(y)
    /\ func_table' = FnPush(y)
    /\ ids' = Append(ids, FnId)
    /\ frames' = Append(frames, y)
    /\ loc_table' = Append(loc_table, [id |-> FnId, function_id |-> FnId,
                                       address |-> AddressOf[y], symbol |-> y])
    /\ UNCHANGED <<report, profile, builds>>

(* The end of report_block_info or report_cpu_sample, whose label has the key
   "block" or "cpu_times" *)
AddSample(key, value) ==
    LET st == InsertString(InsertString(string_table, key), value)
    IN  /\ string_table' = st
        /\ report' = Append(report, [location_id |-> ids, key |-> st.index[key],
                                     str |-> st.index[value], frames |-> frames,
                                     label |-> <<key, value>>])
        /\ ids' = <<>>
        /\ frames' = <<>>
        /\ UNCHANGED <<func_table, loc_table, profile, builds>>

report_block_info(s) == Kind = "heap" /\ AddSample("block", s)
report_cpu_sample(s) == Kind = "cpu" /\ AddSample("cpu_times", s)

(* build: the tables are drained, and the two indexes are kept. *)
Build(type, unit) ==
    LET st == InsertString(InsertString(string_table, type), unit)
    IN  /\ ids = <<>>
        /\ frames = <<>>
        /\ profile' = [string_table |-> st.table, function |-> func_table.funcs,
                       location |-> loc_table, sample |-> report]
        /\ string_table' = [table |-> <<>>, index |-> st.index]
        /\ func_table' = [funcs |-> <<>>, index |-> func_table.index]
        /\ loc_table' = <<>>
        /\ report' = <<>>
        /\ builds' = IF builds = 0 THEN 1 ELSE 2
        /\ UNCHANGED <<ids, frames>>

BuildHeap == Kind = "heap" /\ Build("space", "bytes")
BuildCpu == Kind = "cpu" /\ Build("cpu", "nanoseconds")

ReportNext ==
    \/ \E y \in Symbols : KnownFrame(y) \/ NewFrame(y)
    \/ \E s \in Strings : report_block_info(s) \/ report_cpu_sample(s)
    \/ BuildHeap
    \/ BuildCpu

ReportSpec == ReportInit /\ [][ReportNext]_reportVars

-----------------------------------------------------------------------------
(* Offset o of a string table stands for the string s. *)
Reads(table, o, s) == o \in 0..Len(table) - 1 /\ table[o + 1] = s

(* The tables say of every sample what was reported, up to the address: each
   frame's location is in the location table under its id and has its address,
   with its function in the function table, and the name and file in the string
   table are those of the symbol the location was made for. *)
Sound(table, funcs, locs, samples) ==
    /\ Len(funcs) = Len(locs)
    /\ \A i \in 1..Len(locs) :
           /\ locs[i].id = i
           /\ locs[i].function_id = i
           /\ funcs[i].id = i
           /\ locs[i].symbol \in Symbols /\ locs[i].address = AddressOf[locs[i].symbol]
           /\ Reads(table, funcs[i].system_name, NameOf[locs[i].symbol])
           /\ Reads(table, funcs[i].filename, FileOf[locs[i].symbol])
    /\ \A n \in 1..Len(samples) :
           /\ Reads(table, samples[n].key, samples[n].label[1])
           /\ Reads(table, samples[n].str, samples[n].label[2])
           /\ Len(samples[n].location_id) = Len(samples[n].frames)
           /\ \A j \in 1..Len(samples[n].frames) :
                  /\ samples[n].location_id[j] \in 1..Len(locs)
                  /\ locs[samples[n].location_id[j]].address = AddressOf[samples[n].frames[j]]

(* The profile that the first build returns is sound.  A later one is not, for
   the indexes still name entries of the tables that build has drained. *)
FirstProfileIsSound ==
    builds = 1 => Sound(profile.string_table, profile.function, profile.location,
                        profile.sample)

(* The symbols that share the address of y share its name and file. *)
OwnAddress(y) ==
    \A z \in Symbols : AddressOf[z] = AddressOf[y] => NameOf[z] = NameOf[y] /\ FileOf[z] = FileOf[y]

(* In the first profile every frame has the name and the file of its own symbol,
   unless another symbol has the same address.  That happens to symbols without an
   address, which all have the null one: FnTable::get takes them for one function,
   and they appear under the name of the first. *)
FirstProfileNamesFrames ==
    builds = 1 =>
        \A n \in 1..Len(profile.sample) : \A j \in 1..Len(profile.sample[n].frames) :
            LET y == profile.sample[n].frames[j]
                f == profile.function[profile.sample[n].location_id[j]]
            IN  OwnAddress(y) => /\ Reads(profile.string_table, f.system_name, NameOf[y])
                                 /\ Reads(profile.string_table, f.filename, FileOf[y])
=============================================================================
