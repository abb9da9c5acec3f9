---------------------------- MODULE InstanceBuffer ----------------------------
(***************************************************************************)
(* The buffer of sprite instances of Client/Rendering/D3D11Renderer: Render*)
(* asks for room for its items, EnsureInstanceBufferCapacity doubles the   *)
(* capacity until they fit, and Render writes as many as the capacity      *)
(* says into the buffer it maps.  Sizes are std::size_t and UINT of the    *)
(* Direct3D interface; their widths are constants.                         *)
(***************************************************************************)
EXTENDS Integers

CONSTANTS
    SizeBits,                \* of std::size_t, 64 in the code
    UIntBits,                \* of UINT, 32 in the code
    InitialInstanceCapacity, \* 1024 in the code
    InstanceBytes            \* sizeof(InstanceData), 96 in the code

ASSUME BufferAssumption ==
    /\ SizeBits \in Nat /\ UIntBits \in 0..SizeBits
    /\ InitialInstanceCapacity \in Nat \ {0} /\ InstanceBytes \in Nat \ {0}
    /\ 2^UIntBits \in Nat /\ 2^UIntBits <= 2^SizeBits /\ 2^SizeBits \in Nat
    /\ InitialInstanceCapacity * InstanceBytes < 2^UIntBits

Sizes == 0..(2^SizeBits - 1)
MaximumSize == 2^SizeBits - 1
MaximumBufferBytes == 2^UIntBits - 1

NoCapacity == 0

VARIABLES
    instanceBufferCapacity,  \* instanceBufferCapacity_
    byteWidth,               \* size of the buffer instanceBuffer_ holds
    submitted,               \* submittedInstanceCount of the last frame
    dropped,                 \* droppedInstanceCount of the last frame
    largest                  \* history: the most items ever asked for

bufferVars == <<instanceBufferCapacity, byteWidth, submitted, dropped, largest>>

(* Initialize creates the first buffer or gives up, and the client ends. *)
BufferInit ==
    /\ instanceBufferCapacity = InitialInstanceCapacity
    /\ byteWidth = InitialInstanceCapacity * InstanceBytes
    /\ submitted = 0 /\ dropped = 0 /\ largest = InitialInstanceCapacity

(* The capacity doubled until so many fit; NoCapacity rather than an      *)
(* overflow of std::size_t.                                               *)
Doubled(required) ==
    LET from[capacity \in Sizes] ==
            IF capacity >= required THEN capacity
            ELSE IF capacity > MaximumSize \div 2 THEN NoCapacity
            ELSE from[capacity * 2]
    IN  from[instanceBufferCapacity]

MutantAlwaysInBytes(capacity) == capacity # NoCapacity

(* The size in bytes is a UINT. *)
FitsInBytes(capacity) ==
    /\ capacity # NoCapacity
    /\ capacity <= MaximumBufferBytes \div InstanceBytes

(* EnsureInstanceBufferCapacity; CreateBuffer may fail, and then the old   *)
(* buffer stays.                                                           *)
EnsureInstanceBufferCapacity(required) ==
    LET newCapacity == Doubled(required)
    IN  \/ UNCHANGED <<instanceBufferCapacity, byteWidth>>
        \/ /\ required > instanceBufferCapacity
           /\ FitsInBytes(newCapacity)
           /\ instanceBufferCapacity' = newCapacity
           /\ byteWidth' = (InstanceBytes * newCapacity) % 2^UIntBits

(* The part of Render that sizes the frame: what does not fit is dropped.  *)
(* Nothing bounds the number of items but std::size_t.                     *)
RenderItems(items) ==
    /\ EnsureInstanceBufferCapacity(items)
    /\ submitted' = items
    /\ dropped' = IF items > instanceBufferCapacity'
                  THEN items - instanceBufferCapacity' ELSE 0
    /\ largest' = IF items > largest THEN items ELSE largest

BufferNext == \E items \in Sizes : RenderItems(items)

BufferSpec == BufferInit /\ [][BufferNext]_bufferVars

-----------------------------------------------------------------------------
(* Render never writes past the end of the buffer it maps, whatever was    *)
(* asked for and whichever growth failed; and doubling does not overshoot: *)
(* the buffer has less than twice the room that was ever needed.           *)
BufferHoldsWhatIsWritten ==
    /\ (submitted - dropped) * InstanceBytes <= byteWidth
    /\ instanceBufferCapacity < 2 * largest
=============================================================================
