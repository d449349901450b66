--------------------------- MODULE BuildingTasks ---------------------------
(***************************************************************************)
(* The ten routines of examples/pthreads/building_tasks/src/main.c and the *)
(* task graph of its readme (img/building_tasks.svg).                      *)
(***************************************************************************)
EXTENDS TaskTeam

(* do_concurrent_tasks, in the order of the calls of add_thread.           *)
BuildingTeam ==
  <<"walls", "exterior_plumbing", "roof", "exterior_painting",
    "interior_plumbing", "electrical_installation", "exterior_finishes",
    "interior_painting", "floors", "interior_finishes">>

BuildingCapacity == 11

BuildingSemaphores ==
  {"walls_ready", "exterior_plumbing_ready", "roof_ready",
   "exterior_painting_ready", "interior_plumbing_ready",
   "electrical_installation_ready", "interior_painting_ready", "floor_ready"}

(* The calls of sem_wait of each routine, in order.                        *)
BuildingWaits ==
  [walls                   |-> <<>>,
   exterior_plumbing       |-> <<"walls_ready">>,
   roof                    |-> <<"walls_ready">>,
   exterior_painting       |-> <<"exterior_plumbing_ready">>,
   interior_plumbing       |-> <<"exterior_plumbing_ready">>,
   electrical_installation |-> <<"roof_ready">>,
   exterior_finishes       |-> <<"exterior_painting_ready">>,
   interior_painting       |-> <<"interior_plumbing_ready",
                                 "electrical_installation_ready">>,
   floors                  |-> <<"interior_painting_ready">>,
   interior_finishes       |-> <<"floor_ready">>]

(* The calls of sem_post of each routine, in order: two for the routines   *)
(* that two others depend on.                                              *)
BuildingPosts ==
  [walls                   |-> <<"walls_ready", "walls_ready">>,
   exterior_plumbing       |-> <<"exterior_plumbing_ready",
                                 "exterior_plumbing_ready">>,
   roof                    |-> <<"roof_ready">>,
   exterior_painting       |-> <<"exterior_painting_ready">>,
   interior_plumbing       |-> <<"interior_plumbing_ready">>,
   electrical_installation |-> <<"electrical_installation_ready">>,
   exterior_finishes       |-> <<>>,
   interior_painting       |-> <<"interior_painting_ready">>,
   floors                  |-> <<"floor_ready">>,
   interior_finishes       |-> <<>>]

(* The arrows of the graph of the readme, by where they end.               *)
GraphOfReadme ==
  [walls                   |-> {},
   exterior_plumbing       |-> {"walls"},
   roof                    |-> {"walls"},
   exterior_painting       |-> {"exterior_plumbing"},
   interior_plumbing       |-> {"exterior_plumbing"},
   electrical_installation |-> {"roof"},
   exterior_finishes       |-> {"exterior_painting"},
   interior_painting       |-> {"interior_plumbing", "electrical_installation"},
   floors                  |-> {"interior_painting"},
   interior_finishes       |-> {"floors"}]
=============================================================================
