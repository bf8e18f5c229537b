--------------------------------- MODULE Api ---------------------------------
(***************************************************************************)
(* The REST contract as it was generated from the OpenAPI document, twice: *)
(* what the server's side may write (Visit...) and what the client's side  *)
(* understands (Parse...).  An answer is a status and what its body is; an *)
(* error of the generated code itself, or of the WebSocket library, is     *)
(* text and in neither.                                                    *)
(***************************************************************************)
EXTENDS Naturals

Errors(statuses) == statuses \X {"Error"}

-----------------------------------------------------------------------------
(* The server's side: the response objects and what visiting them writes   *)

VisitGetDocs        == {<<200, "html">>}
VisitListBridges    == {<<200, "names">>} \cup Errors({500})
VisitListImages     == {<<200, "images">>} \cup Errors({500})
VisitDeleteImage    == {<<204, "none">>} \cup Errors({404, 500})
VisitListNetworks   == {<<200, "names">>} \cup Errors({500})
VisitGetOpenAPIJSON == {<<200, "document">>}
VisitGetOpenAPISpec == {<<200, "yaml">>}
VisitListPlaybooks  == {<<200, "names">>} \cup Errors({500})
VisitListPools      == {<<200, "pools">>} \cup Errors({500})
VisitCreatePool     == {<<201, "CreatePoolResult">>} \cup Errors({400, 500})
VisitListVMs        == {<<200, "VMInfos">>} \cup Errors({500})
VisitCreateVM       == {<<201, "VMInfo">>} \cup Errors({400, 404, 500})
VisitDeleteVM       == {<<204, "none">>} \cup Errors({404, 500})
VisitGetVM          == {<<200, "VMInfo">>} \cup Errors({404, 500})
VisitAddDisk        == {<<200, "AddDiskResult">>} \cup Errors({400, 404, 500})
VisitSetAutostart   == {<<200, "VMInfo">>} \cup Errors({400, 404, 500})
VisitRunVMCommand   == {<<200, "CmdResult">>} \cup Errors({400, 404, 409, 500, 502})
VisitOpenVMConsole  == {<<101, "none">>} \cup Errors({400, 403, 404, 409, 500, 502})
VisitMigrateDisk    == {<<200, "VMInfo">>} \cup Errors({400, 404, 500})
VisitRunPlaybook    == {200, 500} \X {"PlaybookResult"} \cup Errors({400, 404, 409})
VisitPoweroffVM     == {<<200, "VMInfo">>} \cup Errors({404, 500})
VisitRebootVM       == {<<200, "VMInfo">>} \cup Errors({404, 500})
VisitResizeDisk     == {<<200, "ResizeDiskResult">>} \cup Errors({400, 404, 500})
VisitResumeVM       == {<<200, "VMInfo">>} \cup Errors({404, 500})
VisitStartVM        == {<<200, "VMInfo">>} \cup Errors({404, 500})
VisitStopVM         == {<<200, "VMInfo">>} \cup Errors({404, 500})

\* StrictServerInterface: by operation, the answers it may have.
Declared ==
  [GetDocs |-> VisitGetDocs, GetOpenAPIJSON |-> VisitGetOpenAPIJSON,
   GetOpenAPISpec |-> VisitGetOpenAPISpec,
   ListBridges |-> VisitListBridges, ListImages |-> VisitListImages,
   ListNetworks |-> VisitListNetworks, ListPlaybooks |-> VisitListPlaybooks,
   ListPools |-> VisitListPools, ListVMs |-> VisitListVMs,
   DeleteImage |-> VisitDeleteImage, CreatePool |-> VisitCreatePool,
   CreateVM |-> VisitCreateVM, DeleteVM |-> VisitDeleteVM, GetVM |-> VisitGetVM,
   AddDisk |-> VisitAddDisk, SetAutostart |-> VisitSetAutostart,
   RunVMCommand |-> VisitRunVMCommand, OpenVMConsole |-> VisitOpenVMConsole,
   MigrateDisk |-> VisitMigrateDisk, RunPlaybook |-> VisitRunPlaybook,
   PoweroffVM |-> VisitPoweroffVM, RebootVM |-> VisitRebootVM,
   ResizeDisk |-> VisitResizeDisk, ResumeVM |-> VisitResumeVM,
   StartVM |-> VisitStartVM, StopVM |-> VisitStopVM]

Operations == DOMAIN Declared

-----------------------------------------------------------------------------
(* The client's side: the answers a response is decoded from               *)

ParseGetDocs        == {}
ParseListBridges    == {<<200, "names">>} \cup Errors({500})
ParseListImages     == {<<200, "images">>} \cup Errors({500})
ParseDeleteImage    == Errors({404, 500})
ParseListNetworks   == {<<200, "names">>} \cup Errors({500})
ParseGetOpenAPIJSON == {<<200, "document">>}
ParseGetOpenAPISpec == {<<200, "yaml">>}
ParseListPlaybooks  == {<<200, "names">>} \cup Errors({500})
ParseListPools      == {<<200, "pools">>} \cup Errors({500})
ParseCreatePool     == {<<201, "CreatePoolResult">>} \cup Errors({400, 500})
ParseListVMs        == {<<200, "VMInfos">>} \cup Errors({500})
ParseCreateVM       == {<<201, "VMInfo">>} \cup Errors({400, 404, 500})
ParseDeleteVM       == Errors({404, 500})
ParseGetVM          == {<<200, "VMInfo">>} \cup Errors({404, 500})
ParseAddDisk        == {<<200, "AddDiskResult">>} \cup Errors({400, 404, 500})
ParseSetAutostart   == {<<200, "VMInfo">>} \cup Errors({400, 404, 500})
ParseRunVMCommand   == {<<200, "CmdResult">>} \cup Errors({400, 404, 409, 500, 502})
ParseOpenVMConsole  == Errors({400, 403, 404, 409, 500, 502})
ParseMigrateDisk    == {<<200, "VMInfo">>} \cup Errors({400, 404, 500})
ParseRunPlaybook    == {200, 500} \X {"PlaybookResult"} \cup Errors({400, 404, 409})
ParsePoweroffVM     == {<<200, "VMInfo">>} \cup Errors({404, 500})
ParseRebootVM       == {<<200, "VMInfo">>} \cup Errors({404, 500})
ParseResizeDisk     == {<<200, "ResizeDiskResult">>} \cup Errors({400, 404, 500})
ParseResumeVM       == {<<200, "VMInfo">>} \cup Errors({404, 500})
ParseStartVM        == {<<200, "VMInfo">>} \cup Errors({404, 500})
ParseStopVM         == {<<200, "VMInfo">>} \cup Errors({404, 500})

\* ClientWithResponses: by operation, what its Parse function fills a field from.
Understood ==
  [GetDocs |-> ParseGetDocs, GetOpenAPIJSON |-> ParseGetOpenAPIJSON,
   GetOpenAPISpec |-> ParseGetOpenAPISpec,
   ListBridges |-> ParseListBridges, ListImages |-> ParseListImages,
   ListNetworks |-> ParseListNetworks, ListPlaybooks |-> ParseListPlaybooks,
   ListPools |-> ParseListPools, ListVMs |-> ParseListVMs,
   DeleteImage |-> ParseDeleteImage, CreatePool |-> ParseCreatePool,
   CreateVM |-> ParseCreateVM, DeleteVM |-> ParseDeleteVM, GetVM |-> ParseGetVM,
   AddDisk |-> ParseAddDisk, SetAutostart |-> ParseSetAutostart,
   RunVMCommand |-> ParseRunVMCommand, OpenVMConsole |-> ParseOpenVMConsole,
   MigrateDisk |-> ParseMigrateDisk, RunPlaybook |-> ParseRunPlaybook,
   PoweroffVM |-> ParsePoweroffVM, RebootVM |-> ParseRebootVM,
   ResizeDisk |-> ParseResizeDisk, ResumeVM |-> ParseResumeVM,
   StartVM |-> ParseStartVM, StopVM |-> ParseStopVM]

-----------------------------------------------------------------------------
(* The generated code between the route and the handler                    *)

\* The wrapper binds query parameters, the strict handler decodes a body; what
\* does not bind or decode is answered by them.
WithQuery == {"DeleteImage", "DeleteVM", "OpenVMConsole"}
WithBody  == {"CreatePool", "CreateVM", "AddDisk", "SetAutostart", "RunVMCommand",
              "MigrateDisk", "RunPlaybook", "ResizeDisk"}
Malformed == <<400, "text">>
=============================================================================
