-------------------------------- MODULE XML --------------------------------
(***************************************************************************)
(* Topologies as XML (src/topology-xml.c): a topology of this machine or a *)
(* synthetic one is loaded, annotated and restricted, exported, and loaded *)
(* again from what was exported, by the reader on libxml2 or by the one of *)
(* hwloc itself.  Both writers produce the same elements; an element is    *)
(*                                                                         *)
(*    attrs   its attributes, pairs of a name and a value, in order        *)
(*    pages, infos, dists   the page_type, info and distances elements     *)
(*    objs    the object elements, which come after those                  *)
(*                                                                         *)
(* Bitmaps are read back as they were written (StringsReadBack), numbers   *)
(* too; the strings the application chooses are those the readers differ   *)
(* on.  A string is a number, 0 for none.                                  *)
(***************************************************************************)
EXTENDS Synthetic

CONSTANTS
    Order,           \* the objects of Input in the order the backend inserts
    EmptyString,     \* the string without characters
    Escaped,         \* strings with a character that must be escaped
    LeadingNewline,  \* those of them that begin with a newline
    Infos,           \* the pairs of strings add_info may be given
    Devices,         \* a host bridge, a PCI device and an OS device of it
    DeviceParents,   \* where they may be attached, NULL: there are none
    Matrices,        \* distances: sequences of [type, base], base 0 if tiny
    MaxEdits         \* bound: changes to a topology before it is exported

ASSUME StringAssumption ==
    /\ EmptyString \in Nat /\ EmptyString # 0 /\ Escaped \subseteq Nat \ {0, EmptyString}
    /\ LeadingNewline \subseteq Escaped
    /\ Infos \subseteq Nat \X Nat
    /\ Devices \in Seq(MiscIds) /\ Len(Devices) = 3
    /\ ToSet(Order) = DOMAIN Input

VARIABLES
    stage,   \* "source", "exported", "imported" or "failed"
    params,  \* the levels of a synthetic topology, NULL for another
    extra,   \* what an object has besides its fields in tree, see NoExtra
    wholeio, \* HWLOC_TOPOLOGY_FLAG_WHOLE_IO is set for the import
    file,    \* what was exported
    edits,   \* how many changes were made since the load
    reader   \* "libxml", "minimal", "consumed" once the minimal one has run

xmlvars == <<vars, stage, params, extra, wholeio, file, edits, reader>>

(* attr: the members of hwloc_obj_attr_u that are set, by attribute name.  *)
NoExtra == [attr |-> <<>>, memory |-> 0, pages |-> <<>>, infos |-> <<>>, dists |-> <<>>]

-----------------------------------------------------------------------------
(* Export.                                                                 *)

(* The attributes that depend on the type, in the order of the export; a   *)
(* host bridge is no PCI device, and some bridges lead to no PCI bus.      *)
TypeAttributes(type) ==
    CASE type = "CACHE" -> <<"cache_size", "depth", "cache_linesize", "cache_associativity">>
      [] type = "GROUP" -> <<"depth">>
      [] type = "BRIDGE" -> <<"bridge_type", "depth", "bridge_pci", "pci_busid", "pci_type", "pci_link_speed">>
      [] type = "PCI_DEVICE" -> <<"pci_busid", "pci_type", "pci_link_speed">>
      [] type = "OS_DEVICE" -> <<"osdev_type">>
      [] OTHER -> <<>>

CpusetFields  == <<"cpuset", "complete_cpuset", "online_cpuset", "allowed_cpuset">>
NodesetFields == <<"nodeset", "complete_nodeset", "allowed_nodeset">>

Given(cond, name, value) == IF cond THEN <<<<name, value>>>> ELSE <<>>

(* Mutant: the name is written before the sets.                            *)
export_attributes_NameFirst(o, e) ==
    LET names == TypeAttributes(o.type) IN
    <<<<"type", o.type>>>>
    \o Given(o.os_index # -1, "os_index", o.os_index)
    \o Given(o.name # 0, "name", o.name)
    \o FlattenSeq([i \in 1..4 |-> Given(Has(o[CpusetFields[i]]), CpusetFields[i], o[CpusetFields[i]])])
    \o FlattenSeq([i \in 1..3 |-> LET set == o[NodesetFields[i]]
                                  IN  Given(Has(set) /\ set # AllNodes, NodesetFields[i], set)])
    \o FlattenSeq([i \in DOMAIN names |->
           IF names[i] = "depth" THEN Given(TRUE, "depth", o.level)
           ELSE Given(names[i] \in DOMAIN e.attr, names[i], e.attr[names[i]])])
    \o Given(e.memory # 0, "local_memory", e.memory)

(* Full nodesets are those of a machine without NUMA nodes.                *)
export_attributes(o, e) ==
    LET names == TypeAttributes(o.type) IN
    <<<<"type", o.type>>>>
    \o Given(o.os_index # -1, "os_index", o.os_index)
    \o FlattenSeq([i \in 1..4 |-> Given(Has(o[CpusetFields[i]]), CpusetFields[i], o[CpusetFields[i]])])
    \o FlattenSeq([i \in 1..3 |-> LET set == o[NodesetFields[i]]
                                  IN  Given(Has(set) /\ set # AllNodes, NodesetFields[i], set)])
    \o Given(o.name # 0, "name", o.name)
    \o FlattenSeq([i \in DOMAIN names |->
           IF names[i] = "depth" THEN Given(TRUE, "depth", o.level)
           ELSE Given(names[i] \in DOMAIN e.attr, names[i], e.attr[names[i]])])
    \o Given(e.memory # 0, "local_memory", e.memory)

RECURSIVE export_object(_, _, _)
export_object(t, e, x) ==
    [attrs |-> export_attributes(t.obj[x], e[x]),
     pages |-> e[x].pages, infos |-> e[x].infos, dists |-> e[x].dists,
     objs  |-> [i \in DOMAIN t.kids[x] |-> export_object(t, e, t.kids[x][i])]]

-----------------------------------------------------------------------------
(* Import.                                                                 *)

(* hwloc__xml_import_next_attr, until there are none.  With libxml2 values *)
(* that are empty or begin with a newline are skipped; the other reader    *)
(* recognises no escape, and takes one for the end of the attributes.      *)
(* strings: the names of the attributes whose values are strings.          *)
next_attrs(r, attrs, strings) ==
    LET Skipped(a) == a[1] \in strings /\ (a[2] = EmptyString \/ a[2] \in LeadingNewline)
        Kept(a)    == ~Skipped(a)
        escapes    == {i \in DOMAIN attrs : attrs[i][1] \in strings /\ attrs[i][2] \in Escaped}
    IN  IF r = "libxml" THEN SelectSeq(attrs, Kept)
        ELSE IF escapes = {} THEN attrs ELSE SubSeq(attrs, 1, Min(escapes) - 1)

(* Mutant: the depth of a group is not read.                               *)
import_object_attr_NoGroup(o, e, name, value) ==
    [o |-> IF name \in {"type", "os_index", "name"} \cup ToSet(CpusetFields) \cup ToSet(NodesetFields)
           THEN [o EXCEPT ![name] = value]
           ELSE IF name = "depth" /\ o.type \in {"CACHE", "BRIDGE"}
           THEN [o EXCEPT !.level = value] ELSE o,
     e |-> IF name = "local_memory" THEN [e EXCEPT !.memory = value]
           ELSE IF name # "depth" /\ name \in ToSet(TypeAttributes(o.type))
           THEN [e EXCEPT !.attr = (name :> value) @@ @] ELSE e]

(* hwloc__xml_import_object_attr; what does not suit the type is ignored.  *)
import_object_attr(o, e, name, value) ==
    [o |-> IF name \in {"type", "os_index", "name"} \cup ToSet(CpusetFields) \cup ToSet(NodesetFields)
           THEN [o EXCEPT ![name] = value]
           ELSE IF name = "depth" /\ o.type \in {"CACHE", "GROUP", "BRIDGE"}
           THEN [o EXCEPT !.level = value] ELSE o,
     e |-> IF name = "local_memory" THEN [e EXCEPT !.memory = value]
           ELSE IF name # "depth" /\ name \in ToSet(TypeAttributes(o.type))
           THEN [e EXCEPT !.attr = (name :> value) @@ @] ELSE e]

import_attributes(r, o, attrs) ==
    LET Read(p, a) == import_object_attr(p.o, p.e, a[1], a[2])
    IN  FoldLeft(Read, [o |-> o, e |-> NoExtra], next_attrs(r, attrs, {"name"}))

(* hwloc__xml_import_info: an info needs a name, a value that is missing   *)
(* is empty.                                                               *)
import_info(r, info) ==
    LET seen == next_attrs(r, <<<<"name", info[1]>>, <<"value", info[2]>>>>, {"name", "value"})
        Of(name) == {seen[i][2] : i \in {j \in DOMAIN seen : seen[j][1] = name}}
    IN  IF Of("name") = {} THEN <<>>
        ELSE <<<<info[1], IF Of("value") = {} THEN EmptyString ELSE info[2]>>>>

(* hwloc__xml_import_pagetype.                                             *)
HasSize(page) == page[1] # 0

(* hwloc__xml_import_distances: last_distances is never set, so a matrix   *)
(* replaces the one read before it.  A base that was printed as 0 makes    *)
(* the element ignored, and then its latency elements are in the way of    *)
(* the closing tag that the minimal reader looks for.                      *)
import_distances(r, acc, x, dists) ==
    LET used == SelectSeq(dists, LAMBDA d : d.base # 0) IN
    [acc EXCEPT
        !.failed = @ \/ (r = "minimal" /\ Len(used) < Len(dists)),
        !.first_distances = IF used = <<>> THEN @ ELSE <<[root |-> x, dist |-> Last(used)]>>]

(* hwloc__xml_import_object of element el, for the object x that is in the *)
(* tree already: its attributes, then its elements in order.               *)
RECURSIVE import_object(_, _, _, _)
import_object(r, acc, x, el) ==
    LET read == import_attributes(r, acc.tree.obj[x], el.attrs)
        e    == [read.e EXCEPT
                    !.pages = SelectSeq(el.pages, HasSize),
                    !.infos = FlattenSeq([i \in DOMAIN el.infos |-> import_info(r, el.infos[i])])]
        acc1 == [acc EXCEPT !.tree.obj[x] = read.o, !.extra[x] = e]
        Child(a, sub) ==
            LET y == CHOOSE z \in Fresh(a.tree) : TRUE
            IN  import_object(r, [a EXCEPT !.tree = insert_object_by_parent(@, x, y, setup_object("MISC", -1))], y, sub)
    IN  FoldLeft(Child, import_distances(r, acc1, x, el.dists), el.objs)

DepthIn(ls, x) == CHOOSE d \in DOMAIN ls : x \in ToSet(ls[d])

(* hwloc_xml__handle_distances: a matrix must be as large as the part of   *)
(* its level inside the cpuset of the object, as they are at that time.    *)
handle_distances(acc) ==
    LET ls       == connect_levels(acc.tree)
        Inside(d, x) == acc.tree.obj[x].cpuset \subseteq acc.tree.obj[d.root].cpuset
        Objs(d)  == SelectSeq(ls[DepthIn(ls, d.root) + d.dist.relative_depth], LAMBDA x : Inside(d, x))
        Valid(d) == /\ DepthIn(ls, d.root) + d.dist.relative_depth \in DOMAIN ls
                    /\ Len(Objs(d)) = d.dist.nbobjs
        Give(a, d) == IF Valid(d) THEN [a EXCEPT !.extra[d.root].dists = <<d.dist>>] ELSE a
    IN  FoldLeft(Give, acc, acc.first_distances)

(* hwloc_look_xml.                                                         *)
look_xml(r, doc) ==
    handle_distances(
        import_object(r, [tree |-> setup_defaults, extra |-> [x \in Id |-> NoExtra],
                          first_distances |-> <<>>, failed |-> FALSE], Root, doc))

-----------------------------------------------------------------------------
(* The rest of a load.                                                     *)

(* apply_nodeset: nodes that are not allowed lose their memory, unless the *)
(* whole system is asked for.                                              *)
apply_nodeset(t, e) ==
    [x \in Id |->
        IF /\ ~whole /\ x \in InTree(t) /\ t.obj[x].type = "NODE"
           /\ Has(t.obj[t.root].allowed_nodeset)
           /\ t.obj[x].os_index \notin t.obj[t.root].allowed_nodeset
        THEN [e[x] EXCEPT !.memory = 0, !.pages = [i \in DOMAIN @ |-> <<@[i][1], 0>>]]
        ELSE e[x]]

(* hwloc_drop_useless_io when no I/O is asked for: that of the root goes.  *)
drop_io(t, keep) ==
    LET Drop(s, x) ==
            [s EXCEPT !.obj = [y \in Id |-> IF y \in {x} \cup Below(s, x) THEN NULL ELSE s.obj[y]],
                      !.kids = [y \in Id |-> IF y \in {x} \cup Below(s, x) THEN <<>>
                                             ELSE IF y = s.root THEN Remove(s.kids[y], x) ELSE s.kids[y]]]
        Io(x) == type_is_io(t.obj[x].type)
    IN  IF keep THEN t ELSE FoldLeft(Drop, t, SelectSeq(t.kids[t.root], Io))

(* The topology a load ends with, or the abort: t1 is the tree after the   *)
(* stages that remove objects, t2 after the merges.                        *)
Connects(t, t1, e) ==
    /\ phase' = "loaded" /\ tree' = t /\ levels' = connect_levels(t)
    /\ extra' = apply_nodeset(t1, [x \in Id |-> IF x \in InTree(t) THEN e[x] ELSE NoExtra])
Merges(t1, t2, e, keep) ==
    IF t1.root = NULL \/ ~sets_asserted(t2)
    THEN phase' = "aborted" /\ UNCHANGED <<tree, levels, extra>>
    ELSE Connects(drop_io(add_default_object_sets(t2), keep), t1, e)
Removes(t1, e, keep) == Merges(t1, merge_useless_child(t1, ignored), e, keep)
Loads(t, e, keep) == Removes(tweak(t, ignored, whole), e, keep)

-----------------------------------------------------------------------------
(* The source of the XML.                                                  *)

XmlInit ==
    /\ Init
    /\ stage = "source" /\ params = NULL /\ file = NULL /\ reader = NULL
    /\ extra = [x \in Id |-> NoExtra]
    /\ wholeio = FALSE /\ edits = 0

SameFile == UNCHANGED <<todo, ignored, whole, wholeio, file, reader>>

(* What backends know of an object beyond its fields.                      *)
Known(o) ==
    CASE o.type = "CACHE" -> [NoExtra EXCEPT !.attr =
            [cache_size |-> 1, cache_linesize |-> 2, cache_associativity |-> 3]]
      [] o.type = "NODE" -> [NoExtra EXCEPT !.memory = 1, !.pages = <<<<1, 4>>>>]
      [] OTHER -> NoExtra
BackendInfo == <<1, 1>>   \* the name of the backend, in plain characters
Knowledge(t) ==
    [x \in Id |-> IF t.obj[x] = NULL THEN NoExtra
                  ELSE [Known(t.obj[x]) EXCEPT !.infos = IF x = t.root THEN <<BackendInfo>> ELSE <<>>]]

LoadsKnown(t) == Loads(t, Knowledge(t), TRUE)

(* hwloc_topology_set_synthetic and the load of what it describes.         *)
LoadSynthetic ==
    /\ stage = "source" /\ phase = "init"
    /\ \E d \in Descriptions :
        /\ ~Refused(d)
        /\ params' = synthetic_init(d)
        /\ LoadsKnown(look_synthetic(synthetic_init(d)))
    /\ UNCHANGED <<stage, edits>> /\ SameFile

(* The load of this machine, in one step.                                  *)
LoadMachine ==
    /\ stage = "source" /\ phase = "init"
    /\ \E m \in Machines :
        LET Ins(t, x) == insert_object_by_cpuset(t, x, BackendObject(x))
        IN  LoadsKnown(FoldLeft(Ins, alloc_cpusets(setup_defaults, m), Order))
    /\ UNCHANGED <<stage, params, edits>> /\ SameFile

Source == stage = "source" /\ phase = "loaded"
Edit   == Source /\ params = NULL /\ edits < MaxEdits /\ edits' = edits + 1

(* What libpci leaves behind, and the matrices finalize_logical gives the  *)
(* root: one for each type that has several objects.                       *)
BridgeAttr == [bridge_type |-> 1, bridge_pci |-> 2]
PciAttr    == [pci_busid |-> 1, pci_type |-> 2, pci_link_speed |-> 3]
FindDevices(p) ==
    /\ Edit /\ p \in InTree(tree) /\ Devices[1] \in Fresh(tree)
    /\ tree' = insert_object_by_parent(
                 insert_object_by_parent(
                   insert_object_by_parent(tree, p, Devices[1], setup_object("BRIDGE", -1)),
                   Devices[1], Devices[2], setup_object("PCI_DEVICE", 1)),
                 Devices[2], Devices[3], [setup_object("OS_DEVICE", -1) EXCEPT !.name = 1])
    /\ extra' = [extra EXCEPT ![Devices[1]].attr = BridgeAttr, ![Devices[2]].attr = PciAttr,
                              ![Devices[3]].attr = [osdev_type |-> 1]]
    /\ UNCHANGED <<phase, levels, stage, params>> /\ SameFile

TypeDepths(type) == {d \in DOMAIN levels : tree.obj[levels[d][1]].type = type}
HaveDistances(ms) ==
    LET Matrix(m) == LET d == Min(TypeDepths(m.type))
                     IN  [relative_depth |-> d - 1, nbobjs |-> Len(levels[d]), base |-> m.base]
    IN  /\ Edit /\ extra[tree.root].dists = <<>>
        /\ \A i \in DOMAIN ms : \E d \in TypeDepths(ms[i].type) : Len(levels[d]) > 1
        /\ extra' = [extra EXCEPT ![tree.root].dists = [i \in DOMAIN ms |-> Matrix(ms[i])]]
        /\ UNCHANGED <<phase, tree, levels, stage, params>> /\ SameFile

(* hwloc_obj_add_info.                                                     *)
AddInfo(info) ==
    /\ Edit
    /\ extra' = [extra EXCEPT ![tree.root].infos = Append(@, info)]
    /\ UNCHANGED <<phase, tree, levels, stage, params>> /\ SameFile

(* The calls of Topology.tla; restrict drops the distances.                *)
Annotate ==
    /\ Edit
    /\ \/ \E cpuset \in CpuArgs, name \in MiscNames : InsertMiscByCpuset(cpuset, name)
       \/ \E p \in InTree(tree), name \in MiscNames : InsertMiscByParent(p, name)
    /\ UNCHANGED <<stage, params, extra, wholeio, file, reader>>
RestrictSource ==
    /\ Edit
    /\ \E cpuset \in CpuArgs, flags \in RestrictArgs : TopologyRestrict(cpuset, flags)
    /\ extra' = [x \in Id |-> IF x \in InTree(tree)' THEN [extra[x] EXCEPT !.dists = <<>>] ELSE NoExtra]
    /\ UNCHANGED <<stage, params, wholeio, file, reader>>

-----------------------------------------------------------------------------
(* hwloc_topology_export_xml and export_xmlbuffer, by either writer.       *)
Export ==
    /\ Source
    /\ file' = export_object(tree, extra, tree.root)
    /\ stage' = "exported"
    /\ UNCHANGED <<vars, params, extra, wholeio, edits, reader>>

(* A load that fails clears the topology.                                  *)
LoadRead(acc) ==
    IF acc.failed
    THEN /\ stage' = "failed" /\ tree' = setup_defaults /\ levels' = <<<<Root>>>>
         /\ extra' = [x \in Id |-> NoExtra] /\ phase' = "init"
    ELSE stage' = "imported" /\ Loads(acc.tree, acc.extra, wholeio')
LoadFrom(r) == LoadRead(look_xml(r, file))

(* hwloc_topology_set_xml or set_xmlbuffer on a new topology, and its load.*)
Import ==
    /\ stage = "exported"
    /\ \E r \in {"libxml", "minimal"}, io \in BOOLEAN :
        wholeio' = io /\ reader' = r /\ LoadFrom(r)
    /\ UNCHANGED <<todo, ignored, whole, params, file, edits>>

(* It is loaded again.  The minimal reader ends the names and values of    *)
(* its buffer as it reads them: a second time it finds no tag.             *)
Reload ==
    /\ stage = "imported" /\ phase = "loaded" /\ reader \in {"libxml", "minimal"}
    /\ UNCHANGED wholeio
    /\ IF reader = "libxml"
       THEN LoadFrom("libxml") /\ UNCHANGED reader
       ELSE /\ stage' = "failed" /\ tree' = setup_defaults /\ levels' = <<<<Root>>>>
            /\ extra' = [x \in Id |-> NoExtra] /\ phase' = "init" /\ reader' = "consumed"
    /\ UNCHANGED <<todo, ignored, whole, params, file, edits>>

XmlNext ==
    \/ LoadSynthetic
    \/ LoadMachine
    \/ \E p \in DeviceParents : FindDevices(p)
    \/ \E ms \in Matrices : HaveDistances(ms)
    \/ \E info \in Infos : AddInfo(info)
    \/ Annotate \/ RestrictSource
    \/ Export
    \/ Import
    \/ Reload

XmlSpec == XmlInit /\ [][XmlNext]_xmlvars

-----------------------------------------------------------------------------
(* What is lost, although the topology is one that the calls of hwloc.h    *)
(* build: each is a case the round trip below leaves out.                  *)

RECURSIVE Elements(_)
Elements(el) == {el} \cup UNION {Elements(el.objs[i]) : i \in DOMAIN el.objs}
AttributesOf(el) == ToSet(el.attrs)
TypeOf(el) == (CHOOSE a \in AttributesOf(el) : a[1] = "type")[2]
Valued(pairs, name) == {pairs[i][2] : i \in {j \in DOMAIN pairs : pairs[j][1] = name}}
Names   == UNION {{el.infos[i][1] : i \in DOMAIN el.infos} \cup Valued(el.attrs, "name") : el \in Elements(file)}
Strings == Names \cup UNION {{el.infos[i][2] : i \in DOMAIN el.infos} : el \in Elements(file)}

(* Strings the reader cannot read: an empty value of an info is harmless.  *)
Unreadable(r) ==
    IF r = "libxml" THEN Strings \cap LeadingNewline # {} \/ EmptyString \in Names
    ELSE Strings \cap Escaped # {}
(* Misc objects inserted by parent have no cpuset, and fail an assertion   *)
(* of the load unless they are below I/O objects.                          *)
RECURSIVE BareMisc(_)
BareMisc(el) ==
    /\ ~type_is_io(TypeOf(el))
    /\ Valued(el.attrs, "cpuset") = {} \/ \E i \in DOMAIN el.objs : BareMisc(el.objs[i])
(* I/O at the root is dropped if it is not asked for.                      *)
IoDropped == ~wholeio /\ \E i \in DOMAIN file.objs : type_is_io(TypeOf(file.objs[i]))
(* Only one matrix survives, and none with a base that prints as 0.        *)
MatricesLost == Len(file.dists) > 1 \/ \E i \in DOMAIN file.dists : file.dists[i].base = 0

(* A group that restrict left with one child is merged with it, and a Misc *)
(* object that it left without processors is removed.                      *)
LoneGroup == \E el \in Elements(file) :
    Len(el.objs) = 1 /\ "GROUP" \in {TypeOf(el), TypeOf(el.objs[1])}
EmptyMisc == \E el \in Elements(file) : TypeOf(el) = "MISC" /\ <<"cpuset", {}>> \in AttributesOf(el)

(* A topology that is exported and loaded again, with either reader, is    *)
(* the same: exporting it gives the same file, as tests/xmlbuffer.c has it *)
(* for the machine it runs on.  The stages of the load find nothing to     *)
(* change in sets that were restricted, offline or not allowed before, and *)
(* no attribute is read into an object of another type.                    *)
RoundTrip ==
    stage = "imported" /\ phase = "loaded" =>
        \/ Unreadable(reader) \/ IoDropped \/ MatricesLost \/ LoneGroup \/ EmptyMisc
        \/ export_object(tree, extra, tree.root) = file

(* A load from an exported file fails, or aborts, for no other reasons. In *)
(* particular the strings that a reader cannot read hide nothing the load  *)
(* needs: they are written after the sets of their object.                 *)
ReadsExported ==
    /\ stage = "failed" => reader = "consumed" \/ (reader = "minimal" /\ MatricesLost)
    /\ stage = "imported" => (phase = "aborted" <=> BareMisc(file))

(* A description whose levels can be told apart gives the levels that it   *)
(* describes, types left out included: as many objects, of the types and   *)
(* depths, with consecutive indexes and processors, although every object  *)
(* is inserted before those above it.                                      *)
SyntheticExact ==
    params # NULL /\ stage = "source" /\ Describable(params) =>
        phase = "loaded" /\ tree.obj[tree.root].type = params.root /\ IsDescribed(params)
=============================================================================
