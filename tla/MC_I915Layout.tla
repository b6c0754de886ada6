-------------------------- MODULE MC_I915Layout --------------------------
(* Every format the i915 backend registers, widths and heights on both    *)
(* sides of the 32/64/128-byte and 4/8/32-row boundaries, and modifier    *)
(* lists of one and two entries, CCS included.  allocate() is asked for   *)
(* the flexible formats and one format of each registry group with the    *)
(* use-flag sets Android and Chrome OS clients ask for.                   *)
EXTENDS I915Layout

MCFormats == {"R8", "RGB565", "XRGB8888", "ABGR16161616F", "NV12", "P010",
              "YVU420", "YVU420_ANDROID"}
MCWidths  == {1, 33, 64, 130}
MCHeights == {1, 17, 33}
MCModLists == {<<"LINEAR">>, <<"X_TILED">>, <<"Y_TILED">>, <<"Y_TILED_CCS">>,
               <<"LINEAR", "X_TILED">>, <<"Y_TILED_CCS", "LINEAR">>}

MCAllocFormats == {"FLEX_IMPLEMENTATION_DEFINED", "FLEX_YCbCr_420_888", "XRGB8888",
                   "ABGR16161616F", "P010", "YVU420", "R8"}
MCFlagSets ==
    { {"SCANOUT", "RENDERING", "TEXTURE"},            \* composited window
      {"SCANOUT", "TEXTURE", "SW_READ_RARELY", "SW_WRITE_RARELY"},
      {"TEXTURE", "SW_READ_OFTEN", "SW_WRITE_OFTEN"},  \* CPU-drawn texture
      {"CAMERA_READ", "CAMERA_WRITE"},                 \* camera stream
      {"TEXTURE", "HW_VIDEO_DECODER"},                 \* decoded video
      {"HW_VIDEO_ENCODER", "SW_WRITE_OFTEN"},          \* encoder input
      {"RENDERING", "TEXTURE"},                        \* offscreen target
      {"TEXTURE", "SW_WRITE_OFTEN"},                   \* CPU-uploaded texture
      {"CAMERA_WRITE", "HW_VIDEO_ENCODER"} }           \* camera recording
MCGrpTypes == {"ONE_GPU_INTEL", "TWO_GPU_IGPU_DGPU", "THREE_GPU_IGPU_VIRTIO_DGPU"}
(* An ADL-P id that is in the gen12 table too, one that is only in the     *)
(* ADL-P table, a gen12 id (TGL) and a gen9 id (KBL).                      *)
MCDeviceIds == {\h46A0, \h46D0, \h9A49, \h5916}
=============================================================================
